---- MODULE Spec2Model ----
(***************************************************************************)
(* A model of the generic typed client of client-go (package gentype2),    *)
(* its fake counterpart and the legacy generic TypeClient.                 *)
(*                                                                         *)
(* One client instance serves one call at a time: a call starts from       *)
(* pc = "idle", runs to pc = "done" and is then cleared by Reset.  The      *)
(* transport (rest.Interface), the fake recorder (testing.Fake), the       *)
(* watch-list option derivation and the consistency detector are           *)
(* collaborators: their answers are drawn nondeterministically.            *)
(***************************************************************************)
EXTENDS Integers, Sequences, FiniteSets, TLC

VARIABLES
    client,     \* UntypedClient: resource, namespace, prefersProtobuf
    pc,         \* position of the running call
    call,       \* the running call: implementation, verb and arguments
    requests,   \* requests handed to the transport during the call, in order
    actions,    \* actions handed to the fake recorder during the call, in order
    ret,        \* what the call returned: object and error
    lastResp,   \* answer of the transport / recorder to a single-request verb
    prep,       \* List: the outcome of the watch-list option derivation
    wlOpts,     \* List: the derived watch-list options
    wlResp,     \* List: the answer to the watch-list request
    stdResp,    \* List: the answer to the standard list request
    checks,     \* List: invocations of the consistency check
    chk,        \* state of the consistency check collaborator
    events,     \* order of the steps of the call
    log         \* warnings logged during the call

vars == <<client, pc, call, requests, actions, ret, lastResp, prep, wlOpts,
          wlResp, stdResp, checks, chk, events, log>>

---------------------------------------------------------------------------
(* Values *)

\* Largest TimeoutSeconds the callers of the model pass.
MaxTimeoutSeconds == 2

\* The longest list the fake recorder answers with.
MaxItems == 2

\* The most calls of other goroutines that overlap one List call.
MaxConcurrent == 1

\* A nil error.
NoErr == "nil"
\* Errors a collaborator (transport, recorder, derivation) may report.
Errs == {"e1", "e2"}
\* Errors of the watch-list option derivation.
DeriveErrs == {"derive-error"}
\* new(T): a freshly allocated zero-valued object.
Zero == "zero"
\* A nil object (the recorder's "no object").
Nil == "nil-object"
\* Populated (decoded) objects.
Objs == {"o1", "o2"}
\* Placeholder of a value that does not exist (yet).
None == "none"
Names == {"a", "b"}
Resources == {"pods"}
Namespaces == {"", "ns1"}

\* A *int64 / *string: <<>> is nil, <<v>> points to v.
NilPtr == <<>>
Ptr(v) == <<v>>
Deref(p) == p[1]

---------------------------------------------------------------------------
(* int64 arithmetic.  An int64 is its two's complement representation: eight *)
(* bytes, least significant first.  Wider sequences hold exact results.      *)

RECURSIVE Bytes(_, _)
\* The `len` low bytes of the natural number n.
Bytes(n, len) == IF len = 0 THEN <<>> ELSE <<n % 256>> \o Bytes(n \div 256, len - 1)

RECURSIVE AddCarry(_, _, _)
\* a + b + carry, truncated to the width of a.
AddCarry(a, b, carry) ==
    IF a = <<>> THEN <<>>
    ELSE LET sum == a[1] + b[1] + carry IN
         <<sum % 256>> \o AddCarry(Tail(a), Tail(b), sum \div 256)

\* a + b modulo 2^(8 * Len(a)).
AddInt(a, b) == AddCarry(a, b, 0)

\* -a modulo 2^(8 * Len(a)).
NegInt(a) ==
    AddCarry([i \in 1..Len(a) |-> 255 - a[i]], [i \in 1..Len(a) |-> 0], 1)

RECURSIVE ScaleCarry(_, _, _)
\* a * d + carry for one byte d, truncated to the width of a.
ScaleCarry(a, d, carry) ==
    IF a = <<>> THEN <<>>
    ELSE LET prod == a[1] * d + carry IN
         <<prod % 256>> \o ScaleCarry(Tail(a), d, prod \div 256)

RECURSIVE MulInt(_, _)
\* a * b modulo 2^(8 * Len(a)): the multiplication of Go's fixed-width
\* integers, which wraps around on overflow.
MulInt(a, b) ==
    IF b = <<>> THEN [i \in 1..Len(a) |-> 0]
    ELSE AddInt(ScaleCarry(a, b[1], 0),
                SubSeq(<<0>> \o MulInt(a, Tail(b)), 1, Len(a)))

\* The int64 of a small natural number.
Int64(n) == Bytes(n, 8)

\* a is negative.
IsNegative(a) == a[Len(a)] >= 128

\* a widened to 16 bytes, keeping its value.
Widen(a) == a \o [i \in 1..(16 - Len(a)) |-> IF IsNegative(a) THEN 255 ELSE 0]

\* a <= b as signed numbers.
LessEq(a, b) == ~IsNegative(AddInt(Widen(b), NegInt(Widen(a))))

\* time.Second: the number of nanoseconds (the unit of time.Duration) in a second.
Second == Int64(1000000000)

\* The largest count of seconds whose nanoseconds fit in an int64:
\* 9223372036 = (2^63 - 1) \div 10^9.
MaxExactSeconds == AddInt(MulInt(Int64(9223), Int64(1000000)), Int64(372036))

\* TimeoutSeconds values beyond the small ones: around the largest exact count
\* of seconds, in both signs.
BigTimeoutSeconds ==
    { MaxExactSeconds, AddInt(MaxExactSeconds, Int64(1)),
      NegInt(MaxExactSeconds), NegInt(AddInt(MaxExactSeconds, Int64(1))) }

NoResp == [obj |-> None, err |-> None]
NoOpts == [kind |-> None]
NoPrep == [prepared |-> FALSE, err |-> None]

\* metav1.ListOptions, the fields the client reads or sets.
ListOptionsOf(label, ts, w, sie) ==
    [kind |-> "ListOptions", labelSelector |-> label, timeoutSeconds |-> ts,
     watch |-> w, sendInitialEvents |-> sie]

\* The list options callers pass.
ListOptionsSet ==
    { ListOptionsOf(l, ts, FALSE, FALSE) :
        l \in {"", "x=1"},
        ts \in {NilPtr} \cup { Ptr(Int64(n)) : n \in 0..MaxTimeoutSeconds } }

\* The list options callers pass to DeleteCollection and Watch: those of
\* List, and options with the large TimeoutSeconds values.
TimedListOptionsSet ==
    ListOptionsSet \cup
    { ListOptionsOf("", Ptr(n), FALSE, FALSE) : n \in BigTimeoutSeconds }

\* The list options callers pass to the fake List: with and without a label
\* selector.
FakeListOptionsSet == { o \in ListOptionsSet : o.timeoutSeconds = NilPtr }

\* Answers of the transport to Do(ctx).Into(result) / WatchList(ctx).Into(result):
\* a decoded body and no error, or an error.
TransportResponses ==
    { [obj |-> o, err |-> NoErr] : o \in Objs } \cup
    { [obj |-> None, err |-> e] : e \in Errs }

\* Objects callers pass to Create and Update.
InputObjs == [name : Names, spec : {"s1"}]

\* Apply declarative configurations (a pointer type): nil, or a configuration
\* with or without a name.
Configs == {NilPtr} \cup { Ptr([name |-> n]) : n \in {NilPtr} \cup { Ptr(x) : x \in Names } }

GetOptionsSet == { [kind |-> "GetOptions", resourceVersion |-> rv] : rv \in {"", "7"} }
CreateOptionsSet == { [kind |-> "CreateOptions", fieldManager |-> fm] : fm \in {"", "fm"} }
UpdateOptionsSet == { [kind |-> "UpdateOptions", fieldManager |-> fm] : fm \in {"", "fm"} }
PatchOptionsSet ==
    { [kind |-> "PatchOptions", force |-> f, fieldManager |-> "fm"] :
        f \in {NilPtr, Ptr(TRUE)} }
ApplyOptionsSet ==
    { [kind |-> "ApplyOptions", force |-> f, fieldManager |-> "fm"] : f \in BOOLEAN }

DeleteOptionsSet ==
    { [kind |-> "DeleteOptions", propagationPolicy |-> pp] : pp \in {"", "Foreground"} }

\* The list options callers pass to Watch, with either watch flag.
WatchOptionsSet == { [o EXCEPT !.watch = w] : o \in TimedListOptionsSet, w \in BOOLEAN }

\* types.PatchType values callers pass to Patch, and types.ApplyPatchType.
PatchTypes == {"application/merge-patch+json", "application/json-patch+json"}
ApplyPatchType == "application/apply-patch+yaml"
PatchData == {"p1"}
SubresourcePaths == {<<>>, <<"status">>}

\* Answers of the transport to Watch(ctx), and of the fake recorder to
\* InvokesWatch(action): an event source and no error, or an error.
WatchResponses ==
    { [obj |-> "w1", err |-> NoErr] } \cup { [obj |-> Nil, err |-> e] : e \in Errs }

\* Answers of the fake recorder to Invokes(action, defaultReturnObj): any
\* object (none, the default, a populated one) with any error.
Reactions ==
    { [obj |-> o, err |-> e] : o \in {Nil, Zero} \cup Objs, e \in {NoErr} \cup Errs }

\* Items of the lists the fake recorder answers with: whether meta.Accessor
\* can read the item's metadata, and its labels.
ListItems ==
    { [id |-> "i1", hasMeta |-> TRUE, labels |-> {"x=1"}],
      [id |-> "i2", hasMeta |-> TRUE, labels |-> {"y=2"}],
      [id |-> "i3", hasMeta |-> FALSE, labels |-> {"x=1"}] }

\* List objects: the list-level metadata and the items.
ListObjs ==
    [meta : {"", "continue-1"}, items : UNION { [1..n -> ListItems] : n \in 0..MaxItems }]

\* new(L): a list with no metadata and no items.
ZeroList == [meta |-> "", items |-> <<>>]

\* Answers of the fake recorder to a list action: no object or a list, with
\* any error.
ListReactions ==
    { [obj |-> o, err |-> e] :
        o \in {NilPtr} \cup { Ptr(l) : l \in ListObjs }, e \in {NoErr} \cup Errs }

\* Outcomes of marshalling a configuration (json.Marshal, apply.NewRequest).
MarshalErrs == {NoErr, "marshal-error"}

---------------------------------------------------------------------------
(* Collaborators *)

\* rest.Result.Into(result): decodes the body into the caller's object, or
\* returns the error and leaves the object as it was.
Into(result, resp) ==
    IF resp.err # NoErr
    THEN [obj |-> result, err |-> resp.err]
    ELSE [obj |-> resp.obj, err |-> NoErr]

\* watchlist.PrepareWatchListOptionsFromListOptions(opts): the derived
\* options with prepared = TRUE, or not eligible, or an error.
PrepareWatchListOptionsFromListOptions(opts) ==
    { [opts |-> [opts EXCEPT !.sendInitialEvents = TRUE], prepared |-> TRUE, err |-> NoErr],
      [opts |-> ListOptionsOf("", NilPtr, FALSE, FALSE), prepared |-> FALSE, err |-> NoErr] }
    \cup
    { [opts |-> ListOptionsOf("", NilPtr, FALSE, FALSE), prepared |-> FALSE, err |-> e] :
        e \in DeriveErrs }

---------------------------------------------------------------------------
(* Request building *)

\* var timeout time.Duration: the zero Duration; also the timeout of a
\* request whose chain has no Timeout() call.
NoTimeout == Int64(0)

\* time.Duration(seconds) * time.Second for each TimeoutSeconds value a caller
\* passes, computed once.
Durations ==
    [seconds \in { Int64(n) : n \in 0..MaxTimeoutSeconds } \cup BigTimeoutSeconds |->
        MulInt(seconds, Second)]

\* time.Duration(*opts.TimeoutSeconds) * time.Second when TimeoutSeconds is
\* set, else the zero Duration: an int64 count of nanoseconds.
TimeoutOf(opts) ==
    IF opts.timeoutSeconds # NilPtr
    THEN Durations[Deref(opts.timeoutSeconds)]
    ELSE NoTimeout

\* c.client.Get() / Post() / Put() / Patch(pt): the HTTP verb of a request.
HttpVerb(method) == [method |-> method, patchType |-> None]
HttpPatch(pt) == [method |-> "PATCH", patchType |-> pt]

\* Mutant: the builder chain scopes every request by the namespace, empty or
\* not, and always asks for protobuf.
Request_AlwaysScoped(verb, c, name, sub, params, timeout, body, exec) ==
    [method |-> verb.method,
     patchType |-> verb.patchType,
     protobuf |-> TRUE,
     namespaceSet |-> TRUE,
     namespace |-> c.namespace,
     resource |-> c.resource,
     name |-> name,
     subresource |-> sub,
     params |-> params,
     timeout |-> timeout,
     body |-> body,
     exec |-> exec]

\* The fluent builder chain shared by all verbs:
\* UseProtobufAsDefaultIfPreferred, NamespaceIfScoped, Resource, Name,
\* SubResource, VersionedParams, Timeout, Body and the terminal call.
Request(verb, c, name, sub, params, timeout, body, exec) ==
    [method |-> verb.method,
     patchType |-> verb.patchType,
     protobuf |-> c.prefersProtobuf,
     namespaceSet |-> c.namespace # "",
     namespace |-> IF c.namespace # "" THEN c.namespace ELSE "",
     resource |-> c.resource,
     name |-> name,
     subresource |-> sub,
     params |-> params,
     timeout |-> timeout,
     body |-> body,
     exec |-> exec]

NoName == NilPtr
NoBody == [kind |-> None]

\* list[PL]: the standard list request.
listRequest(c, opts) ==
    Request(HttpVerb("GET"), c, NoName, <<>>, opts, TimeoutOf(opts), NoBody, "Do")

\* watchList[PL]: the streaming watch-list request.
watchListRequest(c, opts) ==
    Request(HttpVerb("GET"), c, NoName, <<>>, opts, TimeoutOf(opts), NoBody, "WatchList")

\* A request as the transport saw it, with the path that issued it.
Sent(req, by) == [req |-> req, by |-> by]

---------------------------------------------------------------------------
(* Initial state *)

Init ==
    /\ client \in [resource : Resources, namespace : Namespaces, prefersProtobuf : BOOLEAN]
    /\ pc = "idle"
    /\ call = [impl |-> None, verb |-> None]
    /\ requests = <<>>
    /\ actions = <<>>
    /\ ret = NoResp
    /\ lastResp = NoResp
    /\ prep = NoPrep
    /\ wlOpts = NoOpts
    /\ wlResp = NoResp
    /\ stdResp = NoResp
    /\ checks = <<>>
    /\ chk = "idle"
    /\ events = <<>>
    /\ log = <<>>

---------------------------------------------------------------------------
(* List with watch-list fallback (gentype2.List) *)

\* A caller invokes List(ctx, c, opts).
ListCall ==
    /\ pc = "idle"
    /\ \E opts \in ListOptionsSet :
          call' = [impl |-> "gentype2", verb |-> "List", opts |-> opts]
    /\ pc' = "prepare"
    /\ events' = <<"listCall">>
    /\ UNCHANGED <<client, requests, actions, ret, lastResp, prep, wlOpts, wlResp,
                   stdResp, checks, chk, log>>

\* Mutant: the "prepared" flag of the derivation is ignored.
PrepareBranch_IgnoresPrepared(outcome) ==
    IF outcome.err # NoErr THEN "list" ELSE "watchList"

\* The branch List takes on the outcome of the derivation.
PrepareBranch(outcome) ==
    IF outcome.err # NoErr THEN "list"
    ELSE IF outcome.prepared THEN "watchList"
    ELSE "list"

\* List derives the watch-list options and picks its branch; a derivation
\* error is logged.
ListPrepare ==
    /\ pc = "prepare"
    /\ \E outcome \in PrepareWatchListOptionsFromListOptions(call.opts) :
          /\ prep' = [prepared |-> outcome.prepared, err |-> outcome.err]
          /\ pc' = PrepareBranch(outcome)
          /\ wlOpts' = outcome.opts
          /\ log' = IF outcome.err # NoErr
                    THEN Append(log, "Failed preparing watchlist options")
                    ELSE log
    /\ events' = Append(events, "prepare")
    /\ UNCHANGED <<client, call, requests, actions, ret, lastResp, wlResp,
                   stdResp, checks, chk>>

\* The invocation of the consistency check: label, options, fetched result.
CheckInvocation(label, opts, result) ==
    [label |-> label, opts |-> opts, result |-> result]

\* Mutant: the check is handed the derived watch-list options.
WatchListCheckArgs_Derived(c, opts, derived, result) ==
    CheckInvocation("watchlist request for " \o c.resource, derived, result)

\* The arguments List gives the check after a successful watch-list request.
WatchListCheckArgs(c, opts, derived, result) ==
    CheckInvocation("watchlist request for " \o c.resource, opts, result)

\* The arguments List gives the check after a successful standard list.
ListCheckArgs(c, opts, result) ==
    CheckInvocation("list request for " \o c.resource, opts, result)

\* Mutant: a failed watch-list request ends the call without a standard list.
AfterWatchList_NoFallback(r) == IF r.err = NoErr THEN "watchListCheck" ELSE "listReturn"

\* Mutant: List goes on to the standard list also after a successful watch-list.
AfterWatchList_FallsThrough(r) == "list"

\* Where List goes after the watch-list request: to the return on success,
\* to the standard list on an error.
AfterWatchList(r) == IF r.err = NoErr THEN "watchListCheck" ELSE "list"

\* List issues the watch-list request; on success it calls the consistency
\* check, on failure it logs a warning and falls through to the standard list.
ListWatchList ==
    /\ pc = "watchList"
    /\ \E resp \in TransportResponses :
          LET r == Into(Zero, resp) IN
          /\ requests' = Append(requests, Sent(watchListRequest(client, wlOpts), "List"))
          /\ wlResp' = r
          /\ pc' = AfterWatchList(r)
          /\ IF r.err = NoErr
             THEN /\ checks' = Append(checks,
                                  WatchListCheckArgs(client, call.opts, wlOpts, r.obj))
                  /\ chk' = "called"
                  /\ events' = events \o <<"watchList", "checkCall">>
                  /\ log' = log
             ELSE /\ log' = Append(log, "The watchlist request ended with an error")
                  /\ events' = Append(events, "watchList")
                  /\ UNCHANGED <<checks, chk>>
    /\ UNCHANGED <<client, call, actions, ret, lastResp, prep, wlOpts, stdResp>>

\* Mutant: a finding of the check is turned into an error of List.
WatchListReturn_CheckFailure(resp) ==
    IF \E i \in 1..Len(log) : log[i] \in {"check: inconsistent", "check: failed to list"}
    THEN [obj |-> Zero, err |-> "inconsistent"]
    ELSE [obj |-> resp.obj, err |-> NoErr]

\* What List returns after a successful watch-list request.
WatchListReturn(resp) == [obj |-> resp.obj, err |-> NoErr]

\* Mutant: the check is dispatched and List does not wait for the call.
CheckReturned_Detached(checkState) == TRUE

\* Whether the check call has returned control to List.
CheckReturned(checkState) == checkState = "returned"

\* The check call has returned: List returns the watch-list result.
ListReturnWatchList ==
    /\ pc = "watchListCheck"
    /\ CheckReturned(chk)
    /\ ret' = WatchListReturn(wlResp)
    /\ pc' = "done"
    /\ events' = Append(events, "listReturn")
    /\ UNCHANGED <<client, call, requests, actions, lastResp, prep, wlOpts, wlResp,
                   stdResp, checks, chk, log>>

\* List issues the standard list request with the caller's options; on
\* success it calls the consistency check.
ListStandard ==
    /\ pc = "list"
    /\ \E resp \in TransportResponses :
          LET r == Into(Zero, resp) IN
          /\ requests' = Append(requests, Sent(listRequest(client, call.opts), "List"))
          /\ stdResp' = r
          /\ IF r.err = NoErr
             THEN /\ checks' = Append(checks, ListCheckArgs(client, call.opts, r.obj))
                  /\ chk' = "called"
                  /\ pc' = "listCheck"
                  /\ events' = events \o <<"list", "checkCall">>
             ELSE /\ pc' = "listReturn"
                  /\ events' = Append(events, "list")
                  /\ UNCHANGED <<checks, chk>>
    /\ UNCHANGED <<client, call, actions, ret, lastResp, prep, wlOpts, wlResp, log>>

\* What List returns after the standard list request.
StandardListReturn(resp) == [obj |-> resp.obj, err |-> resp.err]

\* List returns the standard list's result and error.
ListReturnStandard ==
    /\ \/ pc = "listCheck" /\ CheckReturned(chk)
       \/ pc = "listReturn"
    /\ ret' = StandardListReturn(stdResp)
    /\ pc' = "done"
    /\ events' = Append(events, "listReturn")
    /\ UNCHANGED <<client, call, requests, actions, lastResp, prep, wlOpts, wlResp,
                   stdResp, checks, chk, log>>

---------------------------------------------------------------------------
(* The consistency check collaborator *)

\* Mutant: the closure handed to the check starts a watch-list request.
listFunc_StartsAWatchList(c, opts) == watchListRequest(c, opts)

\* listFunc, the closure List hands to the check: a standard list request.
listFunc(c, opts) == listRequest(c, opts)

\* The check is not requested: the call returns at once.
CheckNotRequested ==
    /\ chk = "called"
    /\ chk' = "returned"
    /\ events' = Append(events, "checkReturn")
    /\ UNCHANGED <<client, pc, call, requests, actions, ret, lastResp, prep, wlOpts,
                   wlResp, stdResp, checks, log>>

\* The check is requested: it lists again through listFunc, compares the
\* answer with the result it was given and reports through the log.
CheckRun ==
    /\ chk = "called"
    /\ \E resp \in TransportResponses :
          LET inv == checks[Len(checks)]
              r == Into(Zero, resp) IN
          /\ requests' = Append(requests, Sent(listFunc(client, inv.opts), "check"))
          /\ log' = IF r.err # NoErr THEN Append(log, "check: failed to list")
                    ELSE IF r.obj # inv.result THEN Append(log, "check: inconsistent")
                    ELSE log
    /\ chk' = "returned"
    /\ events' = Append(events, "checkReturn")
    /\ UNCHANGED <<client, pc, call, actions, ret, lastResp, prep, wlOpts, wlResp,
                   stdResp, checks>>

---------------------------------------------------------------------------
(* Single-request verbs: what a call hands to its collaborator and returns *)

\* requests issued, fake actions submitted, and the returned object and error.
Out(reqs, acts, r) == [reqs |-> reqs, acts |-> acts, ret |-> r, steps |-> <<>>]

\* The outcome of a call that took `steps` on the configuration it was given
\* (the comparison with the zero value "isZero", the name accessor
\* "GetName") before it went on to `out`.
After(steps, out) == [out EXCEPT !.steps = steps \o @]

\* Body(obj) / Body(data): the request body.
Body(kind, val) == [kind |-> kind, val |-> val]

\* A local error returned with a fresh object: return new(R), fmt.Errorf(...).
LocalError(msg) == Out(<<>>, <<>>, [obj |-> Zero, err |-> msg])

\* obj.GetName() of an apply configuration: a *string.
GetName(cfg) == Deref(cfg).name

\* opts.ToPatchOptions(): Force becomes a pointer, FieldManager is kept.
ToPatchOptions(o) ==
    [kind |-> "PatchOptions", force |-> Ptr(o.force), fieldManager |-> o.fieldManager]

\* json.Marshal(configuration) when it succeeds.
Marshal(cfg) == Body("json", Deref(cfg))

\* Mutant: GetSubresource issues its request again when it fails.
GetSubresource_Retries(c, parentName, options, sub, resp) ==
    LET result == Zero
        sent == Sent(Request(HttpVerb("GET"), c, Ptr(parentName), sub, options, NoTimeout,
                             NoBody, "Do"), "Get") IN
    Out(IF resp.err # NoErr THEN <<sent, sent>> ELSE <<sent>>, <<>>, Into(result, resp))

\* GetSubresource: GET of a named resource into a fresh object.
GetSubresource(c, parentName, options, sub, resp) ==
    LET result == Zero IN
    Out(<<Sent(Request(HttpVerb("GET"), c, Ptr(parentName), sub, options, NoTimeout,
                       NoBody, "Do"), "Get")>>,
        <<>>, Into(result, resp))

\* Get: GetSubresource without subresources.
Get(c, name, options, resp) == GetSubresource(c, name, options, <<>>, resp)

\* Mutant: Create puts the object's name in the path.
Create_NamesTheObject(c, obj, opts, resp) ==
    LET result == Zero IN
    Out(<<Sent(Request(HttpVerb("POST"), c, Ptr(obj.name), <<>>, opts, NoTimeout,
                       Body("object", obj), "Do"), "Create")>>,
        <<>>, Into(result, resp))

\* Create: POST of the object, no name in the path.
Create(c, obj, opts, resp) ==
    LET result == Zero IN
    Out(<<Sent(Request(HttpVerb("POST"), c, NoName, <<>>, opts, NoTimeout,
                       Body("object", obj), "Do"), "Create")>>,
        <<>>, Into(result, resp))

\* UpdateSubresource: PUT of the object under the given name.
UpdateSubresource(c, parentName, obj, opts, sub, resp) ==
    LET result == Zero IN
    Out(<<Sent(Request(HttpVerb("PUT"), c, Ptr(parentName), sub, opts, NoTimeout,
                       Body("object", obj), "Do"), "Update")>>,
        <<>>, Into(result, resp))

\* Update: UpdateSubresource under the object's own name.
Update(c, obj, opts, resp) == UpdateSubresource(c, obj.name, obj, opts, <<>>, resp)

\* Patch: PATCH of the given type and data on a named resource.
Patch(c, name, pt, data, opts, sub, resp) ==
    LET result == Zero IN
    Out(<<Sent(Request(HttpPatch(pt), c, Ptr(name), sub, opts, NoTimeout,
                       Body("patch", data), "Do"), "Patch")>>,
        <<>>, Into(result, resp))

\* Mutant: UpdateStatus updates the main resource.
UpdateStatus_OnMainResource(c, obj, opts, resp) ==
    UpdateSubresource(c, obj.name, obj, opts, <<>>, resp)

\* UpdateStatus: UpdateSubresource under the object's own name on "status".
UpdateStatus(c, obj, opts, resp) ==
    UpdateSubresource(c, obj.name, obj, opts, <<"status">>, resp)

\* Do(ctx).Error(): the error of the response, with no object.
ErrorOf(resp) == [obj |-> None, err |-> resp.err]

\* Mutant: Delete swallows the error of the transport.
Delete_SwallowsError(c, name, opts, resp) ==
    Out(<<Sent(Request(HttpVerb("DELETE"), c, Ptr(name), <<>>, NoOpts, NoTimeout,
                       Body("options", opts), "Do"), "Delete")>>,
        <<>>, [obj |-> None, err |-> NoErr])

\* Delete: DELETE of a named resource, the delete options in the body.
Delete(c, name, opts, resp) ==
    Out(<<Sent(Request(HttpVerb("DELETE"), c, Ptr(name), <<>>, NoOpts, NoTimeout,
                       Body("options", opts), "Do"), "Delete")>>,
        <<>>, ErrorOf(resp))

\* Mutant: DeleteCollection builds its request without the Timeout call.
DeleteCollection_NoTimeout(c, opts, listOpts, resp) ==
    Out(<<Sent(Request(HttpVerb("DELETE"), c, NoName, <<>>, listOpts, NoTimeout,
                       Body("options", opts), "Do"), "DeleteCollection")>>,
        <<>>, ErrorOf(resp))

\* DeleteCollection: DELETE without a name, scoped by the list options, with
\* the timeout derived from them and the delete options in the body.
DeleteCollection(c, opts, listOpts, resp) ==
    LET timeout == TimeoutOf(listOpts) IN
    Out(<<Sent(Request(HttpVerb("DELETE"), c, NoName, <<>>, listOpts, timeout,
                       Body("options", opts), "Do"), "DeleteCollection")>>,
        <<>>, ErrorOf(resp))

\* Mutant: Watch sends the options as the caller passed them.
Watch_KeepsTheCallersFlag(c, opts, resp) ==
    LET timeout == TimeoutOf(opts) IN
    Out(<<Sent(Request(HttpVerb("GET"), c, NoName, <<>>, opts, timeout,
                       NoBody, "Watch"), "Watch")>>,
        <<>>, resp)

\* Watch: the timeout is derived from the options, then the watch flag is
\* set on the function's own copy of them; the transport's answer is returned.
Watch(c, opts, resp) ==
    LET timeout == TimeoutOf(opts)
        watchOpts == [opts EXCEPT !.watch = TRUE] IN
    Out(<<Sent(Request(HttpVerb("GET"), c, NoName, <<>>, watchOpts, timeout,
                       NoBody, "Watch"), "Watch")>>,
        <<>>, resp)

\* Mutant: the nil check of ApplySubresource is missing.
ApplySubresource_NoNilCheck(c, parentName, obj, opts, sub, newReqErr, resp) ==
    LET result == Zero
        patchOpts == ToPatchOptions(opts) IN
    IF newReqErr # NoErr THEN Out(<<>>, <<>>, [obj |-> Zero, err |-> newReqErr])
    ELSE Out(<<Sent(Request(HttpPatch(ApplyPatchType), c, Ptr(parentName), sub,
                            patchOpts, NoTimeout, Body("apply", obj), "Do"), "Apply")>>,
             <<>>, Into(result, resp))

\* ApplySubresource: the nil check, apply.NewRequest (which may fail), then
\* the apply patch on the named resource.
ApplySubresource(c, parentName, obj, opts, sub, newReqErr, resp) ==
    LET result == Zero
        patchOpts == ToPatchOptions(opts) IN
    After(<<"isZero">>,
          IF obj = NilPtr
          THEN LocalError("object provided to ApplySubresource must not be nil")
          ELSE IF newReqErr # NoErr THEN Out(<<>>, <<>>, [obj |-> Zero, err |-> newReqErr])
          ELSE Out(<<Sent(Request(HttpPatch(ApplyPatchType), c, Ptr(parentName), sub,
                                  patchOpts, NoTimeout, Marshal(obj), "Do"), "Apply")>>,
                   <<>>, Into(result, resp)))

\* Mutant: a configuration without a name is applied under the empty name.
Apply_EmptyNameForNil(c, obj, opts, newReqErr, resp) ==
    IF obj = NilPtr THEN LocalError("object provided to Apply must not be nil")
    ELSE ApplySubresource(c, IF GetName(obj) = NilPtr THEN "" ELSE Deref(GetName(obj)),
                          obj, opts, <<>>, newReqErr, resp)

\* Apply: the two local checks, then ApplySubresource on the main resource.
Apply(c, obj, opts, newReqErr, resp) ==
    After(<<"isZero">>,
          IF obj = NilPtr THEN LocalError("object provided to Apply must not be nil")
          ELSE After(<<"GetName">>,
                     IF GetName(obj) = NilPtr
                     THEN LocalError("obj.Name must be provided to Apply")
                     ELSE After(<<"GetName">>,
                                ApplySubresource(c, Deref(GetName(obj)), obj, opts, <<>>,
                                                 newReqErr, resp))))

\* Mutant: ApplyStatus reports the messages of Apply.
ApplyStatus_MessagesOfApply(c, obj, opts, newReqErr, resp) ==
    IF obj = NilPtr THEN LocalError("object provided to Apply must not be nil")
    ELSE IF GetName(obj) = NilPtr THEN LocalError("obj.Name must be provided to Apply")
    ELSE ApplySubresource(c, Deref(GetName(obj)), obj, opts, <<"status">>, newReqErr, resp)

\* ApplyStatus: the two local checks, then ApplySubresource on "status".
ApplyStatus(c, obj, opts, newReqErr, resp) ==
    After(<<"isZero">>,
          IF obj = NilPtr
          THEN LocalError("object provided to ApplyStatus must not be nil")
          ELSE After(<<"GetName">>,
                     IF GetName(obj) = NilPtr
                     THEN LocalError("obj.Name must be provided to ApplyStatus")
                     ELSE After(<<"GetName">>,
                                ApplySubresource(c, Deref(GetName(obj)), obj, opts,
                                                 <<"status">>, newReqErr, resp))))

---------------------------------------------------------------------------
(* The fake client *)

RECURSIVE PathJoin(_)
\* path.Join(subresources...): the segments joined by "/".
PathJoin(sub) ==
    IF sub = <<>> THEN ""
    ELSE IF Len(sub) = 1 THEN sub[1]
    ELSE sub[1] \o "/" \o PathJoin(Tail(sub))

\* testing.New...ActionWithOptions: the action the fake submits.
FakeAction(verb, c, name, sub, object, patchType, options) ==
    [verb |-> verb, resource |-> c.resource, namespace |-> c.namespace,
     name |-> name, subresource |-> PathJoin(sub), object |-> object,
     patchType |-> patchType, options |-> options]

\* Mutant: the recorder's object is dropped when it comes with an error.
FakeResult_DropsObjectOnError(emptyResult, reaction) ==
    IF reaction.obj = Nil \/ reaction.err # NoErr
    THEN [obj |-> emptyResult, err |-> reaction.err]
    ELSE [obj |-> reaction.obj, err |-> reaction.err]

\* What a fake verb returns: the fresh object when the recorder gave none,
\* else the recorder's object; the recorder's error in both cases.
FakeResult(emptyResult, reaction) ==
    IF reaction.obj = Nil
    THEN [obj |-> emptyResult, err |-> reaction.err]
    ELSE [obj |-> reaction.obj, err |-> reaction.err]

FakeGet(c, name, options, reaction) ==
    LET emptyResult == Zero IN
    Out(<<>>, <<FakeAction("get", c, Ptr(name), <<>>, NoBody, None, options)>>,
        FakeResult(emptyResult, reaction))

FakeCreate(c, obj, opts, reaction) ==
    LET emptyResult == Zero IN
    Out(<<>>, <<FakeAction("create", c, NoName, <<>>, Body("object", obj), None, opts)>>,
        FakeResult(emptyResult, reaction))

FakeUpdate(c, obj, opts, reaction) ==
    LET emptyResult == Zero IN
    Out(<<>>, <<FakeAction("update", c, NoName, <<>>, Body("object", obj), None, opts)>>,
        FakeResult(emptyResult, reaction))

FakePatch(c, name, pt, data, opts, sub, reaction) ==
    LET emptyResult == Zero IN
    Out(<<>>, <<FakeAction("patch", c, Ptr(name), sub, Body("patch", data), pt, opts)>>,
        FakeResult(emptyResult, reaction))

FakeUpdateStatus(c, obj, opts, reaction) ==
    LET emptyResult == Zero IN
    Out(<<>>,
        <<FakeAction("update", c, NoName, <<"status">>, Body("object", obj), None, opts)>>,
        FakeResult(emptyResult, reaction))

FakeDelete(c, name, opts, reaction) ==
    Out(<<>>, <<FakeAction("delete", c, Ptr(name), <<>>, NoBody, None, opts)>>,
        ErrorOf(reaction))

FakeDeleteCollection(c, opts, listOpts, reaction) ==
    Out(<<>>,
        <<FakeAction("delete-collection", c, NoName, <<>>, NoBody, None,
                     [kind |-> "DeleteCollection", deleteOptions |-> opts,
                      listOptions |-> listOpts])>>,
        ErrorOf(reaction))

\* The fake Watch: the watch flag is set on the function's own copy of the
\* options, which the watch action carries; the recorder's answer is returned.
FakeWatch(c, opts, reaction) ==
    LET watchOpts == [opts EXCEPT !.watch = TRUE] IN
    Out(<<>>, <<FakeAction("watch", c, NoName, <<>>, NoBody, None, watchOpts)>>,
        reaction)

\* labels.Parse(selector): the requirements of a selector; the empty selector
\* has none.
ParseSelector(selector) == IF selector = "" THEN {} ELSE {selector}

\* label.Matches(labels.Set(labels)): every requirement is met.
Matches(label, labels) == label \subseteq labels

\* testing.ExtractFromListOptions(opts): the label selector of the options,
\* or possibly none when the options select everything.
ExtractFromListOptions(opts) ==
    { Ptr(ParseSelector(opts.labelSelector)) } \cup
    (IF opts.labelSelector = "" THEN {NilPtr} ELSE {})

\* The functions injected into the fake lister.
copyListMeta(dst, src) == [dst EXCEPT !.meta = src.meta]
getItems(list) == list.items
setItems(list, items) == [list EXCEPT !.items = items]

RECURSIVE FilterItems(_, _)
\* The loop of the fake List over the unfiltered items: an item without
\* accessible metadata is skipped, a matching item is appended.
FilterItems(unfiltered, label) ==
    IF unfiltered = <<>> THEN <<>>
    ELSE LET item == Head(unfiltered)
             rest == FilterItems(Tail(unfiltered), label) IN
         IF ~item.hasMeta THEN rest
         ELSE IF Matches(label, item.labels) THEN <<item>> \o rest
         ELSE rest

\* Mutant: the fake List returns the recorder's list unfiltered.
FakeList_ReturnsUnfiltered(c, opts, reaction, label) ==
    LET emptyResult == ZeroList
        action == FakeAction("list", c, NoName, <<>>, NoBody, None, opts) IN
    IF reaction.obj = NilPtr
    THEN Out(<<>>, <<action>>, [obj |-> emptyResult, err |-> reaction.err])
    ELSE IF label = NilPtr
    THEN Out(<<>>, <<action>>, [obj |-> Deref(reaction.obj), err |-> NoErr])
    ELSE Out(<<>>, <<action>>, [obj |-> Deref(reaction.obj), err |-> reaction.err])

\* The fake List: the recorder's list, filtered by the label selector when
\* one is extracted from the options.
FakeList(c, opts, reaction, label) ==
    LET emptyResult == ZeroList
        action == FakeAction("list", c, NoName, <<>>, NoBody, None, opts) IN
    IF reaction.obj = NilPtr
    THEN Out(<<>>, <<action>>, [obj |-> emptyResult, err |-> reaction.err])
    ELSE IF label = NilPtr
    THEN Out(<<>>, <<action>>, [obj |-> Deref(reaction.obj), err |-> NoErr])
    ELSE LET obj == Deref(reaction.obj)
             list == copyListMeta(ZeroList, obj)
             items == FilterItems(getItems(obj), Deref(label)) IN
         Out(<<>>, <<action>>, [obj |-> setItems(list, items), err |-> reaction.err])

\* Mutant: the fake reads the name of the configuration before it checks
\* that the configuration is not empty.
FakeApplyTo_NamesBeforeTheCheck(c, configuration, opts, sub, marshalErr, reaction) ==
    After(<<"GetName", "isZero">>,
          IF configuration = NilPtr
          THEN LocalError("configuration provided to Apply must not be nil")
          ELSE IF marshalErr # NoErr
          THEN Out(<<>>, <<>>, [obj |-> Zero, err |-> marshalErr])
          ELSE LET name == GetName(configuration)
                   emptyResult == Zero IN
               IF name = NilPtr
               THEN LocalError("configuration.Name must be provided to Apply")
               ELSE Out(<<>>,
                        <<FakeAction("patch", c, Ptr(Deref(name)), sub,
                                     Marshal(configuration), ApplyPatchType,
                                     ToPatchOptions(opts))>>,
                        FakeResult(emptyResult, reaction)))

\* The checks and the action shared by the fake Apply and ApplyStatus, which
\* differ in the subresource only.
FakeApplyTo(c, configuration, opts, sub, marshalErr, reaction) ==
    After(<<"isZero">>,
          IF configuration = NilPtr
          THEN LocalError("configuration provided to Apply must not be nil")
          ELSE IF marshalErr # NoErr
          THEN Out(<<>>, <<>>, [obj |-> Zero, err |-> marshalErr])
          ELSE LET name == GetName(configuration)
                   emptyResult == Zero IN
               After(<<"GetName">>,
                     IF name = NilPtr
                     THEN LocalError("configuration.Name must be provided to Apply")
                     ELSE Out(<<>>,
                              <<FakeAction("patch", c, Ptr(Deref(name)), sub,
                                           Marshal(configuration), ApplyPatchType,
                                           ToPatchOptions(opts))>>,
                              FakeResult(emptyResult, reaction))))

FakeApply(c, configuration, opts, marshalErr, reaction) ==
    FakeApplyTo(c, configuration, opts, <<>>, marshalErr, reaction)

\* Mutant: the fake ApplyStatus patches the main resource.
FakeApplyStatus_OnMainResource(c, configuration, opts, marshalErr, reaction) ==
    FakeApplyTo(c, configuration, opts, <<>>, marshalErr, reaction)

FakeApplyStatus(c, configuration, opts, marshalErr, reaction) ==
    FakeApplyTo(c, configuration, opts, <<"status">>, marshalErr, reaction)

---------------------------------------------------------------------------
(* The legacy generic TypeClient *)

\* TypeClient has no protobuf preference: its requests never ask for it.
LegacyClient(c) == [c EXCEPT !.prefersProtobuf = FALSE]

\* A local error of the legacy client: return *new(T), err with T a pointer
\* type, that is a nil object.
LegacyLocalError(msg) == Out(<<>>, <<>>, [obj |-> Nil, err |-> msg])

\* The checks and the request shared by the legacy Apply and ApplyStatus.
LegacyApplyTo(c, obj, opts, sub, marshalErr, resp) ==
    LET result == Zero
        patchOpts == ToPatchOptions(opts) IN
    After(<<"isZero">>,
          IF obj = NilPtr
          THEN LegacyLocalError("object provided to Apply must not be nil")
          ELSE IF marshalErr # NoErr
          THEN Out(<<>>, <<>>, [obj |-> Nil, err |-> marshalErr])
          ELSE After(<<"GetName">>,
                     IF GetName(obj) = NilPtr
                     THEN LegacyLocalError("obj.Name must be provided to Apply")
                     ELSE After(<<"GetName">>,
                                Out(<<Sent(Request(HttpPatch(ApplyPatchType), LegacyClient(c),
                                                   Ptr(Deref(GetName(obj))), sub, patchOpts,
                                                   NoTimeout, Marshal(obj), "Do"),
                                           "Apply")>>,
                                    <<>>, Into(result, resp)))))

LegacyApply(c, obj, opts, marshalErr, resp) ==
    LegacyApplyTo(c, obj, opts, <<>>, marshalErr, resp)

LegacyApplyStatus(c, obj, opts, marshalErr, resp) ==
    LegacyApplyTo(c, obj, opts, <<"status">>, marshalErr, resp)

\* The other verbs of the legacy client: the chains of the generic verbs
\* without the protobuf preference.
LegacyGet(c, name, options, resp) ==
    LET result == Zero IN
    Out(<<Sent(Request(HttpVerb("GET"), LegacyClient(c), Ptr(name), <<>>, options,
                       NoTimeout, NoBody, "Do"), "Get")>>,
        <<>>, Into(result, resp))

LegacyList(c, opts, resp) ==
    LET list == Zero
        timeout == TimeoutOf(opts) IN
    Out(<<Sent(Request(HttpVerb("GET"), LegacyClient(c), NoName, <<>>, opts, timeout,
                       NoBody, "Do"), "List")>>,
        <<>>, Into(list, resp))

LegacyWatch(c, opts, resp) ==
    LET timeout == TimeoutOf(opts)
        watchOpts == [opts EXCEPT !.watch = TRUE] IN
    Out(<<Sent(Request(HttpVerb("GET"), LegacyClient(c), NoName, <<>>, watchOpts,
                       timeout, NoBody, "Watch"), "Watch")>>,
        <<>>, resp)

LegacyCreate(c, obj, opts, resp) ==
    LET result == Zero IN
    Out(<<Sent(Request(HttpVerb("POST"), LegacyClient(c), NoName, <<>>, opts, NoTimeout,
                       Body("object", obj), "Do"), "Create")>>,
        <<>>, Into(result, resp))

LegacyUpdate(c, obj, opts, resp) ==
    LET result == Zero IN
    Out(<<Sent(Request(HttpVerb("PUT"), LegacyClient(c), Ptr(obj.name), <<>>, opts,
                       NoTimeout, Body("object", obj), "Do"), "Update")>>,
        <<>>, Into(result, resp))

LegacyUpdateStatus(c, obj, opts, resp) ==
    LET result == Zero IN
    Out(<<Sent(Request(HttpVerb("PUT"), LegacyClient(c), Ptr(obj.name), <<"status">>,
                       opts, NoTimeout, Body("object", obj), "Do"), "Update")>>,
        <<>>, Into(result, resp))

LegacyDelete(c, name, opts, resp) ==
    Out(<<Sent(Request(HttpVerb("DELETE"), LegacyClient(c), Ptr(name), <<>>, NoOpts,
                       NoTimeout, Body("options", opts), "Do"), "Delete")>>,
        <<>>, ErrorOf(resp))

LegacyDeleteCollection(c, opts, listOpts, resp) ==
    LET timeout == TimeoutOf(listOpts) IN
    Out(<<Sent(Request(HttpVerb("DELETE"), LegacyClient(c), NoName, <<>>, listOpts,
                       timeout, Body("options", opts), "Do"), "DeleteCollection")>>,
        <<>>, ErrorOf(resp))

\* Mutant: the legacy Patch leaves the subresource path out.
LegacyPatch_WithoutSubresources(c, name, pt, data, opts, sub, resp) ==
    LET result == Zero IN
    Out(<<Sent(Request(HttpPatch(pt), LegacyClient(c), Ptr(name), <<>>, opts, NoTimeout,
                       Body("patch", data), "Do"), "Patch")>>,
        <<>>, Into(result, resp))

LegacyPatch(c, name, pt, data, opts, sub, resp) ==
    LET result == Zero IN
    Out(<<Sent(Request(HttpPatch(pt), LegacyClient(c), Ptr(name), sub, opts, NoTimeout,
                       Body("patch", data), "Do"), "Patch")>>,
        <<>>, Into(result, resp))

---------------------------------------------------------------------------
(* Calls of the single-request verbs *)

\* A call that runs to its return in one step: it hands `out` to the
\* collaborators, which answered `answer` if anything was handed to them,
\* and returns.
Returns(impl, verb, args, out, answer) ==
    /\ pc = "idle"
    /\ call' = [impl |-> impl, verb |-> verb, args |-> args]
    /\ requests' = out.reqs
    /\ actions' = out.acts
    /\ ret' = out.ret
    /\ lastResp' = IF out.reqs = <<>> /\ out.acts = <<>> THEN NoResp ELSE answer
    /\ pc' = "done"
    /\ events' = <<verb>> \o out.steps
    /\ UNCHANGED <<client, prep, wlOpts, wlResp, stdResp, checks, chk, log>>

GetCall ==
    \E name \in Names, options \in GetOptionsSet, resp \in TransportResponses :
        Returns("gentype2", "Get", [name |-> name, opts |-> options],
                Get(client, name, options, resp), resp)

CreateCall ==
    \E obj \in InputObjs, opts \in CreateOptionsSet, resp \in TransportResponses :
        Returns("gentype2", "Create", [obj |-> obj, opts |-> opts],
                Create(client, obj, opts, resp), resp)

UpdateCall ==
    \E obj \in InputObjs, opts \in UpdateOptionsSet, resp \in TransportResponses :
        Returns("gentype2", "Update", [obj |-> obj, opts |-> opts],
                Update(client, obj, opts, resp), resp)

PatchCall ==
    \E name \in Names, pt \in PatchTypes, data \in PatchData, opts \in PatchOptionsSet,
       sub \in SubresourcePaths, resp \in TransportResponses :
        Returns("gentype2", "Patch",
                [name |-> name, pt |-> pt, data |-> data, opts |-> opts, sub |-> sub],
                Patch(client, name, pt, data, opts, sub, resp), resp)

ApplyCall ==
    \E obj \in Configs, opts \in ApplyOptionsSet, newReqErr \in MarshalErrs,
       resp \in TransportResponses :
        Returns("gentype2", "Apply", [obj |-> obj, opts |-> opts],
                Apply(client, obj, opts, newReqErr, resp), resp)

ApplyStatusCall ==
    \E obj \in Configs, opts \in ApplyOptionsSet, newReqErr \in MarshalErrs,
       resp \in TransportResponses :
        Returns("gentype2", "ApplyStatus", [obj |-> obj, opts |-> opts],
                ApplyStatus(client, obj, opts, newReqErr, resp), resp)

ApplySubresourceCall ==
    \E parentName \in Names, obj \in Configs, opts \in ApplyOptionsSet,
       sub \in SubresourcePaths, newReqErr \in MarshalErrs, resp \in TransportResponses :
        Returns("gentype2", "ApplySubresource",
                [parentName |-> parentName, obj |-> obj, opts |-> opts, sub |-> sub],
                ApplySubresource(client, parentName, obj, opts, sub, newReqErr, resp),
                resp)

UpdateStatusCall ==
    \E obj \in InputObjs, opts \in UpdateOptionsSet, resp \in TransportResponses :
        Returns("gentype2", "UpdateStatus", [obj |-> obj, opts |-> opts],
                UpdateStatus(client, obj, opts, resp), resp)

DeleteCall ==
    \E name \in Names, opts \in DeleteOptionsSet, resp \in TransportResponses :
        Returns("gentype2", "Delete", [name |-> name, opts |-> opts],
                Delete(client, name, opts, resp), resp)

DeleteCollectionCall ==
    \E opts \in DeleteOptionsSet, listOpts \in TimedListOptionsSet,
       resp \in TransportResponses :
        Returns("gentype2", "DeleteCollection", [opts |-> opts, listOpts |-> listOpts],
                DeleteCollection(client, opts, listOpts, resp), resp)

WatchCall ==
    \E opts \in WatchOptionsSet, resp \in WatchResponses :
        Returns("gentype2", "Watch", [opts |-> opts], Watch(client, opts, resp), resp)

FakeGetCall ==
    \E name \in Names, options \in GetOptionsSet, reaction \in Reactions :
        Returns("fake", "Get", [name |-> name, opts |-> options],
                FakeGet(client, name, options, reaction), reaction)

FakeCreateCall ==
    \E obj \in InputObjs, opts \in CreateOptionsSet, reaction \in Reactions :
        Returns("fake", "Create", [obj |-> obj, opts |-> opts],
                FakeCreate(client, obj, opts, reaction), reaction)

FakeUpdateCall ==
    \E obj \in InputObjs, opts \in UpdateOptionsSet, reaction \in Reactions :
        Returns("fake", "Update", [obj |-> obj, opts |-> opts],
                FakeUpdate(client, obj, opts, reaction), reaction)

FakePatchCall ==
    \E name \in Names, pt \in PatchTypes, data \in PatchData, opts \in PatchOptionsSet,
       sub \in SubresourcePaths, reaction \in Reactions :
        Returns("fake", "Patch",
                [name |-> name, pt |-> pt, data |-> data, opts |-> opts, sub |-> sub],
                FakePatch(client, name, pt, data, opts, sub, reaction), reaction)

FakeApplyCall ==
    \E obj \in Configs, opts \in ApplyOptionsSet, marshalErr \in MarshalErrs,
       reaction \in Reactions :
        Returns("fake", "Apply", [obj |-> obj, opts |-> opts],
                FakeApply(client, obj, opts, marshalErr, reaction), reaction)

FakeApplyStatusCall ==
    \E obj \in Configs, opts \in ApplyOptionsSet, marshalErr \in MarshalErrs,
       reaction \in Reactions :
        Returns("fake", "ApplyStatus", [obj |-> obj, opts |-> opts],
                FakeApplyStatus(client, obj, opts, marshalErr, reaction), reaction)

FakeUpdateStatusCall ==
    \E obj \in InputObjs, opts \in UpdateOptionsSet, reaction \in Reactions :
        Returns("fake", "UpdateStatus", [obj |-> obj, opts |-> opts],
                FakeUpdateStatus(client, obj, opts, reaction), reaction)

FakeDeleteCall ==
    \E name \in Names, opts \in DeleteOptionsSet, reaction \in Reactions :
        Returns("fake", "Delete", [name |-> name, opts |-> opts],
                FakeDelete(client, name, opts, reaction), reaction)

FakeDeleteCollectionCall ==
    \E opts \in DeleteOptionsSet, listOpts \in ListOptionsSet, reaction \in Reactions :
        Returns("fake", "DeleteCollection", [opts |-> opts, listOpts |-> listOpts],
                FakeDeleteCollection(client, opts, listOpts, reaction), reaction)

FakeWatchCall ==
    \E opts \in WatchOptionsSet, reaction \in WatchResponses :
        Returns("fake", "Watch", [opts |-> opts], FakeWatch(client, opts, reaction),
                reaction)

FakeListCall ==
    \E opts \in FakeListOptionsSet, reaction \in ListReactions :
        \E label \in ExtractFromListOptions(opts) :
            Returns("fake", "List", [opts |-> opts, label |-> label],
                    FakeList(client, opts, reaction, label), reaction)

LegacyApplyCall ==
    \E obj \in Configs, opts \in ApplyOptionsSet, marshalErr \in MarshalErrs,
       resp \in TransportResponses :
        Returns("legacy", "Apply", [obj |-> obj, opts |-> opts],
                LegacyApply(client, obj, opts, marshalErr, resp), resp)

LegacyApplyStatusCall ==
    \E obj \in Configs, opts \in ApplyOptionsSet, marshalErr \in MarshalErrs,
       resp \in TransportResponses :
        Returns("legacy", "ApplyStatus", [obj |-> obj, opts |-> opts],
                LegacyApplyStatus(client, obj, opts, marshalErr, resp), resp)

\* A call of one of the other verbs of the legacy client.
LegacyCall ==
    \/ \E name \in Names, options \in GetOptionsSet, resp \in TransportResponses :
          Returns("legacy", "Get", [name |-> name, opts |-> options],
                  LegacyGet(client, name, options, resp), resp)
    \/ \E opts \in ListOptionsSet, resp \in TransportResponses :
          Returns("legacy", "List", [opts |-> opts], LegacyList(client, opts, resp), resp)
    \/ \E opts \in WatchOptionsSet, resp \in WatchResponses :
          Returns("legacy", "Watch", [opts |-> opts], LegacyWatch(client, opts, resp), resp)
    \/ \E obj \in InputObjs, opts \in CreateOptionsSet, resp \in TransportResponses :
          Returns("legacy", "Create", [obj |-> obj, opts |-> opts],
                  LegacyCreate(client, obj, opts, resp), resp)
    \/ \E obj \in InputObjs, opts \in UpdateOptionsSet, resp \in TransportResponses :
          Returns("legacy", "Update", [obj |-> obj, opts |-> opts],
                  LegacyUpdate(client, obj, opts, resp), resp)
    \/ \E obj \in InputObjs, opts \in UpdateOptionsSet, resp \in TransportResponses :
          Returns("legacy", "UpdateStatus", [obj |-> obj, opts |-> opts],
                  LegacyUpdateStatus(client, obj, opts, resp), resp)
    \/ \E name \in Names, opts \in DeleteOptionsSet, resp \in TransportResponses :
          Returns("legacy", "Delete", [name |-> name, opts |-> opts],
                  LegacyDelete(client, name, opts, resp), resp)
    \/ \E opts \in DeleteOptionsSet, listOpts \in TimedListOptionsSet,
          resp \in TransportResponses :
          Returns("legacy", "DeleteCollection", [opts |-> opts, listOpts |-> listOpts],
                  LegacyDeleteCollection(client, opts, listOpts, resp), resp)
    \/ \E name \in Names, pt \in PatchTypes, data \in PatchData,
          opts \in PatchOptionsSet, sub \in SubresourcePaths,
          resp \in TransportResponses :
          Returns("legacy", "Patch",
                  [name |-> name, pt |-> pt, data |-> data, opts |-> opts, sub |-> sub],
                  LegacyPatch(client, name, pt, data, opts, sub, resp), resp)

---------------------------------------------------------------------------
(* Concurrent use of the client *)

\* The request of the Get that another goroutine runs on the same client.
ConcurrentRequest(c) ==
    Sent(Get(c, "a", [kind |-> "GetOptions", resourceVersion |-> ""],
             [obj |-> "o1", err |-> NoErr]).reqs[1].req,
         "concurrent")

\* The requests of concurrent calls among those the transport saw.
ByOthers == SelectSeq(requests, LAMBDA s : s.by = "concurrent")

\* Mutant: a concurrent call reconfigures the client it shares with List.
ConcurrentCall_ReconfiguresClient ==
    /\ pc \notin {"idle", "done"}
    /\ Len(ByOthers) < MaxConcurrent
    /\ requests' = Append(requests, ConcurrentRequest(client))
    /\ client' = [client EXCEPT !.prefersProtobuf = ~client.prefersProtobuf]
    /\ UNCHANGED <<pc, call, actions, ret, lastResp, prep, wlOpts, wlResp, stdResp,
                   checks, chk, events, log>>

\* While a List call is between two of its steps, another goroutine runs a
\* Get on the same client: the verbs receive the configuration by value and
\* only read it, so the call adds its request and changes nothing else.
ConcurrentCall ==
    /\ pc \notin {"idle", "done"}
    /\ Len(ByOthers) < MaxConcurrent
    /\ requests' = Append(requests, ConcurrentRequest(client))
    /\ UNCHANGED <<client, pc, call, actions, ret, lastResp, prep, wlOpts, wlResp,
                   stdResp, checks, chk, events, log>>

---------------------------------------------------------------------------
(* The slice helpers of the generated fake clients *)

\* A slice is nil, or has a backing array and the elements held there; a
\* pointer to a slice element is the array and the index of the element.

\* Mutant: the pointers refer to copies of the elements.
ToPointerSlice_PointsAtCopies(src) ==
    IF src.nil THEN [nil |-> TRUE, array |-> None, elems |-> <<>>]
    ELSE LET result == [i \in 1..Len(src.elems) |-> [array |-> "copy", index |-> i]] IN
         [nil |-> FALSE, array |-> "result", elems |-> result]

\* ToPointerSlice: nil for nil; else a new slice of the same length whose
\* i-th element is &src[i].
ToPointerSlice(src) ==
    IF src.nil THEN [nil |-> TRUE, array |-> None, elems |-> <<>>]
    ELSE LET result == [i \in 1..Len(src.elems) |-> [array |-> src.array, index |-> i]] IN
         [nil |-> FALSE, array |-> "result", elems |-> result]

\* FromPointerSlice: nil for nil; else a new slice of the same length whose
\* i-th element is *src[i], read from `memory`.
FromPointerSlice(src, memory) ==
    IF src.nil THEN [nil |-> TRUE, array |-> None, elems |-> <<>>]
    ELSE LET result == [i \in 1..Len(src.elems) |->
                           memory[src.elems[i].array][src.elems[i].index]] IN
         [nil |-> FALSE, array |-> "result", elems |-> result]

\* A slice of at most MaxItems elements, nil or not, is turned into a slice
\* of pointers and back. The memory holds the array of the source slice and
\* an array with copies of its elements.
PointerSliceCall ==
    \E n \in 0..MaxItems, isNil \in BOOLEAN :
      \E elems \in [1..n -> {"v1", "v2"}] :
        (isNil => n = 0) /\
        LET src == [nil |-> isNil, array |-> IF isNil THEN None ELSE "src", elems |-> elems]
            memory == [a \in {"src", "copy"} |-> elems]
            pointers == ToPointerSlice(src)
            values == FromPointerSlice(pointers, memory) IN
        Returns("gentype2", "ToPointerSlice", [src |-> src],
                Out(<<>>, <<>>, [obj |-> [pointers |-> pointers, values |-> values],
                                 err |-> NoErr]),
                NoResp)

---------------------------------------------------------------------------
(* The client generator: struct and constructor variants *)

\* The constant declarations of the variant block, in their order: iota
\* counts every one of them, the zero-valued ones included.
ConstSpecs == <<"namespaced", "noList", "noApply", "nonNamespaced", "withList", "withApply">>

\* iota at the declaration of `name`.
iota(name) == (CHOOSE i \in 1..Len(ConstSpecs) : ConstSpecs[i] = name) - 1

namespaced == 0
noList == 0
noApply == 0
\* nonNamespaced = 1 << iota, repeated implicitly for the two that follow.
nonNamespaced == 2 ^ iota("nonNamespaced")
withList == 2 ^ iota("withList")
withApply == 2 ^ iota("withApply")

\* a | b on non-negative integers.
RECURSIVE BitOr(_, _)
BitOr(a, b) ==
    IF a = 0 THEN b
    ELSE IF b = 0 THEN a
    ELSE (IF a % 2 = 1 \/ b % 2 = 1 THEN 1 ELSE 0) + 2 * BitOr(a \div 2, b \div 2)

\* Mutant: the struct declarations of the variants with apply are missing.
structType_WithoutApply ==
    [i \in 0..BitOr(withList, withApply) |->
        IF i = BitOr(noList, noApply) THEN "Client"
        ELSE IF i = BitOr(withList, noApply) THEN "ClientWithList"
        ELSE ""]

\* var structType = []string{...}: a slice as long as its largest index
\* requires; the entries not listed are empty strings. A template is
\* modelled by the generic client it embeds.
structType ==
    [i \in 0..BitOr(withList, withApply) |->
        IF i = BitOr(noList, noApply) THEN "Client"
        ELSE IF i = BitOr(withList, noApply) THEN "ClientWithList"
        ELSE IF i = BitOr(noList, withApply) THEN "ClientWithApply"
        ELSE IF i = BitOr(withList, withApply) THEN "ClientWithListAndApply"
        ELSE ""]

\* var newStruct = []string{...}: a template is modelled by the constructor
\* it calls, its namespace parameter and the namespace it passes on.
newStruct ==
    LET template(new, ns) ==
            [new |-> new, namespaceParam |-> ns,
             namespace |-> IF ns THEN "namespace" ELSE "\"\""]
        key(n, l, a) == BitOr(BitOr(n, l), a) IN
    [i \in 0..BitOr(BitOr(nonNamespaced, withList), withApply) |->
        IF i = key(namespaced, noList, noApply) THEN template("NewClient", TRUE)
        ELSE IF i = key(namespaced, noList, withApply) THEN template("NewClientWithApply", TRUE)
        ELSE IF i = key(namespaced, withList, noApply) THEN template("NewClientWithList", TRUE)
        ELSE IF i = key(namespaced, withList, withApply)
             THEN template("NewClientWithListAndApply", TRUE)
        ELSE IF i = key(nonNamespaced, noList, noApply) THEN template("NewClient", FALSE)
        ELSE IF i = key(nonNamespaced, noList, withApply)
             THEN template("NewClientWithApply", FALSE)
        ELSE IF i = key(nonNamespaced, withList, noApply)
             THEN template("NewClientWithList", FALSE)
        ELSE IF i = key(nonNamespaced, withList, withApply)
             THEN template("NewClientWithListAndApply", FALSE)
        ELSE [new |-> "", namespaceParam |-> FALSE, namespace |-> ""]]

---------------------------------------------------------------------------
(* The client generator: GenerateType *)

\* util.SupportedVerbs, in the order of the generated methods.
SupportedVerbs ==
    <<"create", "update", "updateStatus", "delete", "deleteCollection", "get", "list",
      "watch", "patch", "apply", "applyStatus">>

\* tags.HasVerb(verb): no skipped verbs means every verb, otherwise the verb
\* is not among the skipped ones.
HasVerb(tags, verb) == tags.SkipVerbs = {} \/ verb \notin tags.SkipVerbs

\* The generators and types GenerateType is applied to: with or without an
\* apply-configuration package; types with or without a Status member, whose
\* comment lines parse to tags without extensions. +genclient:noVerbs skips
\* every supported verb.
GenerateTypeInputs ==
    LET verbs == { SupportedVerbs[i] : i \in 1..Len(SupportedVerbs) }
        tagsSet ==
            { [NoVerbs |-> FALSE, NonNamespaced |-> nn, NoStatus |-> ns, SkipVerbs |-> sk] :
                nn \in BOOLEAN, ns \in BOOLEAN,
                sk \in SUBSET {"list", "apply", "updateStatus"} }
            \cup { [NoVerbs |-> TRUE, NonNamespaced |-> nn, NoStatus |-> ns,
                    SkipVerbs |-> verbs] : nn \in BOOLEAN, ns \in BOOLEAN } IN
    [g : [applyConfigurationPackage : {"", "applyconfigurations"}],
     t : [Members : {<<"Spec">>, <<"Spec", "Status">>}, tags : tagsSet]]

\* Mutant: genStatus looks at the Status member only.
genStatus_IgnoresNoStatus(t) ==
    \E i \in 1..Len(t.Members) : t.Members[i] = "Status"

\* genStatus: the type has a Status member and its tags do not set NoStatus.
genStatus(t) ==
    LET hasStatus == \E i \in 1..Len(t.Members) : t.Members[i] = "Status" IN
    hasStatus /\ ~t.tags.NoStatus

\* buildDefaultVerbTemplates: the method each verb declares; a verb without
\* an entry reads as the empty string.
buildDefaultVerbTemplates(generateApply) ==
    [v \in { SupportedVerbs[i] : i \in 1..Len(SupportedVerbs) } |->
        CASE v = "create" -> "Create"
          [] v = "update" -> "Update"
          [] v = "updateStatus" -> "UpdateStatus"
          [] v = "delete" -> "Delete"
          [] v = "deleteCollection" -> "DeleteCollection"
          [] v = "get" -> "Get"
          [] v = "list" -> "List"
          [] v = "watch" -> "Watch"
          [] v = "patch" -> "Patch"
          [] v = "apply" -> IF generateApply THEN "Apply" ELSE ""
          [] v = "applyStatus" -> IF generateApply THEN "ApplyStatus" ELSE ""]

\* generateInterface: the templates of the verbs the tags have, in the order
\* of SupportedVerbs, those without a template left out.
generateInterface(defaultVerbTemplates, tags) ==
    LET has == SelectSeq(SupportedVerbs,
                         LAMBDA m : HasVerb(tags, m) /\ defaultVerbTemplates[m] # "") IN
    [i \in 1..Len(has) |-> defaultVerbTemplates[has[i]]]

\* GenerateType, for a type without extensions: the getter, the interface,
\* the struct declaration and the constructor written to the file.
GenerateType(g, t) ==
    LET generateApply == g.applyConfigurationPackage # ""
        defaultVerbTemplates == buildDefaultVerbTemplates(generateApply)
        parsed == t.tags
        tags == IF ~parsed.NoVerbs /\ ~genStatus(t)
                THEN [parsed EXCEPT !.SkipVerbs = @ \cup {"updateStatus", "applyStatus"}]
                ELSE parsed
        getter == IF tags.NonNamespaced THEN "getterNonNamespaced" ELSE "getterNamespaced"
        interface == IF ~tags.NoVerbs THEN generateInterface(defaultVerbTemplates, tags)
                     ELSE <<>>
        structNamespaced == IF tags.NonNamespaced THEN nonNamespaced ELSE namespaced
        listable == IF HasVerb(tags, "list") THEN withList ELSE noList
        appliable == IF HasVerb(tags, "apply") /\ generateApply THEN withApply ELSE noApply
        listableOrAppliable ==
            IF tags.NoVerbs THEN BitOr(noList, noApply)
            ELSE BitOr(BitOr(BitOr(noList, noApply), listable), appliable) IN
    [structType |-> structType[listableOrAppliable],
     newStruct |-> newStruct[BitOr(structNamespaced, listableOrAppliable)],
     getter |-> getter,
     interface |-> interface]

\* The generator writes the client of one type.
GenerateTypeCall ==
    \E in \in GenerateTypeInputs :
        Returns("client-gen", "GenerateType", in,
                Out(<<>>, <<>>, [obj |-> GenerateType(in.g, in.t), err |-> NoErr]), NoResp)

---------------------------------------------------------------------------
(* The caller takes the result; the client is ready for the next call. *)

Reset ==
    /\ pc = "done"
    /\ pc' = "idle"
    /\ call' = [impl |-> None, verb |-> None]
    /\ requests' = <<>>
    /\ actions' = <<>>
    /\ ret' = NoResp
    /\ lastResp' = NoResp
    /\ prep' = NoPrep
    /\ wlOpts' = NoOpts
    /\ wlResp' = NoResp
    /\ stdResp' = NoResp
    /\ checks' = <<>>
    /\ chk' = "idle"
    /\ events' = <<>>
    /\ log' = <<>>
    /\ UNCHANGED client

Next ==
    \/ ListCall
    \/ ListPrepare
    \/ ListWatchList
    \/ ListReturnWatchList
    \/ ListStandard
    \/ ListReturnStandard
    \/ CheckNotRequested
    \/ CheckRun
    \/ GetCall
    \/ CreateCall
    \/ UpdateCall
    \/ PatchCall
    \/ ApplyCall
    \/ ApplyStatusCall
    \/ ApplySubresourceCall
    \/ FakeGetCall
    \/ FakeCreateCall
    \/ FakeUpdateCall
    \/ FakePatchCall
    \/ FakeApplyCall
    \/ FakeApplyStatusCall
    \/ LegacyApplyCall
    \/ LegacyApplyStatusCall
    \/ UpdateStatusCall
    \/ DeleteCall
    \/ DeleteCollectionCall
    \/ WatchCall
    \/ FakeUpdateStatusCall
    \/ FakeDeleteCall
    \/ FakeDeleteCollectionCall
    \/ FakeWatchCall
    \/ FakeListCall
    \/ LegacyCall
    \/ PointerSliceCall
    \/ GenerateTypeCall
    \/ ConcurrentCall
    \/ Reset

Spec == Init /\ [][Next]_vars

\* The steps of a running List call and of the check it calls.
ListStep ==
    \/ ListPrepare
    \/ ListWatchList
    \/ ListReturnWatchList
    \/ ListStandard
    \/ ListReturnStandard
    \/ CheckNotRequested
    \/ CheckRun

\* The client used for List calls only, with the concurrent calls of other
\* goroutines. List runs in the caller's goroutine and every call it makes
\* returns: a List call that can take its next step takes it.
ListSpec ==
    Init /\ [][ListCall \/ ListStep \/ ConcurrentCall \/ Reset]_vars /\ WF_vars(ListStep)

---------------------------------------------------------------------------
(* Properties of List *)

\* The running call is gentype2.List.
IsList == call.impl = "gentype2" /\ call.verb = "List"

\* The requests issued on List's own path (not by the consistency check).
ByList == SelectSeq(requests, LAMBDA s : s.by = "List")

\* The two requests of List, as the transport sees them.
SentWatchList == Sent(watchListRequest(client, wlOpts), "List")
SentStandardList == Sent(listRequest(client, call.opts), "List")

Occurs(e) == \E i \in 1..Len(events) : events[i] = e
Pos(e) == CHOOSE i \in 1..Len(events) : events[i] = e
Before(a, b) == Occurs(a) /\ Occurs(b) /\ Pos(a) < Pos(b)

WatchListFailed == wlResp # NoResp /\ wlResp.err # NoErr
WatchListSucceeded == wlResp # NoResp /\ wlResp.err = NoErr

\* C1: once the watch-list request has been issued and has failed, List
\* issues the standard list request with the caller's original options and
\* returns exactly that request's result and error, never the watch-list
\* error.
C1_WatchListErrorFallsBack ==
    (IsList /\ WatchListFailed) =>
        /\ pc \in {"list", "listCheck", "listReturn", "done"}
        /\ pc # "list" =>
              /\ stdResp # NoResp
              /\ ByList = <<SentWatchList, SentStandardList>>
        /\ pc = "done" => ret = stdResp

C1_Witness ==
    /\ IsList /\ pc = "done"
    /\ wlResp.err = "e1" /\ stdResp.err = "e2" /\ ret.err = "e2"

\* C2: when the derivation of the watch-list options fails or reports that
\* the request is not eligible, no watch-list request is issued, the standard
\* list request is issued, and List returns the standard list's result and
\* error, never the derivation error.
C2_NoWatchListWithoutPreparedOptions ==
    (IsList /\ prep # NoPrep /\ (prep.err # NoErr \/ ~prep.prepared)) =>
        /\ wlResp = NoResp
        /\ \A i \in 1..Len(requests) : requests[i].req.exec # "WatchList"
        /\ pc \in {"list", "listCheck", "listReturn", "done"}
        /\ pc # "list" => /\ stdResp # NoResp
                          /\ ByList = <<SentStandardList>>
        /\ pc = "done" => ret = stdResp /\ ret.err \notin DeriveErrs

C2_Witness ==
    /\ IsList /\ pc = "done"
    /\ prep.err \in DeriveErrs
    /\ ByList = <<SentStandardList>>
    /\ ret = stdResp /\ ret.err = "e1"

\* C3: when the watch-list request succeeds, List returns the watch-list
\* result with a nil error and its own path issues no standard list request.
C3_WatchListSuccessReturnsIt ==
    (IsList /\ WatchListSucceeded) =>
        /\ pc \in {"watchListCheck", "done"}
        /\ stdResp = NoResp
        /\ ByList = <<SentWatchList>>
        /\ pc = "done" => ret = [obj |-> wlResp.obj, err |-> NoErr]

C3_Witness ==
    /\ IsList /\ pc = "done"
    /\ WatchListSucceeded /\ wlResp.obj = "o1" /\ ret = [obj |-> "o1", err |-> NoErr]
    /\ \E i \in 1..Len(requests) : requests[i].by = "check"

\* The check reported a finding.
CheckFound ==
    \E i \in 1..Len(log) : log[i] \in {"check: inconsistent", "check: failed to list"}

\* C7: whatever the consistency check finds, List returns exactly the object
\* and error of the request it fetched (the watch-list result with a nil
\* error, else the standard list's result and error); a finding of the check
\* never becomes an error of List.
C7_CheckNeverChangesTheReturn ==
    (IsList /\ pc = "done") =>
        /\ ret = IF WatchListSucceeded
                 THEN [obj |-> wlResp.obj, err |-> NoErr]
                 ELSE stdResp
        /\ ret.err \in {NoErr} \cup Errs
        /\ CheckFound => ret.err = NoErr /\ ret.obj \in Objs

C7_Witness ==
    /\ IsList /\ pc = "done"
    /\ \E i \in 1..Len(log) : log[i] = "check: inconsistent"
    /\ ret.err = NoErr /\ ret.obj = checks[1].result

C9_CheckOnlyOnSuccessWithOriginalOptions ==
    IsList =>
        /\ Len(checks) <= 1
        /\ Len(checks) = 1 =>
              /\ checks[1].opts = call.opts
              /\ \/ /\ WatchListSucceeded /\ stdResp = NoResp
                    /\ checks[1].result = wlResp.obj
                    /\ checks[1].label = "watchlist request for " \o client.resource
                 \/ /\ ~WatchListSucceeded
                    /\ stdResp # NoResp /\ stdResp.err = NoErr
                    /\ checks[1].result = stdResp.obj
                    /\ checks[1].label = "list request for " \o client.resource
              /\ pc = "done" => ret = [obj |-> checks[1].result, err |-> NoErr]
        /\ (pc = "done" /\ ret.err # NoErr) => checks = <<>>
        /\ (WatchListFailed /\ pc = "list") => checks = <<>>

C9_Witness ==
    /\ IsList /\ pc = "done"
    /\ WatchListSucceeded
    /\ Len(checks) = 1
    /\ wlOpts # call.opts /\ checks[1].opts = call.opts
    /\ checks[1].result = ret.obj

---------------------------------------------------------------------------
(* Properties of the Apply family *)

\* A call of the given verbs has returned.
Returned(impls, verbs) == pc = "done" /\ call.impl \in impls /\ call.verb \in verbs

\* Nothing was handed to the transport nor to the fake recorder.
NothingIssued == requests = <<>> /\ actions = <<>>

\* C4: Apply and ApplyStatus (real, fake and legacy client) and
\* ApplySubresource, invoked with the zero value of the configuration type,
\* return a non-nil error and issue no request and no fake action.
C4_EmptyConfigurationIsALocalError ==
    (/\ Returned({"gentype2", "fake", "legacy"}, {"Apply", "ApplyStatus", "ApplySubresource"})
     /\ call.args.obj = NilPtr) =>
        ret.err # NoErr /\ NothingIssued

C4_Witness ==
    /\ Returned({"gentype2"}, {"ApplySubresource"})
    /\ call.args.obj = NilPtr
    /\ ret.err = "object provided to ApplySubresource must not be nil"
    /\ NothingIssued

\* C5: Apply and ApplyStatus (real, fake and legacy client), invoked with a
\* non-empty configuration whose name accessor returns nil, return a non-nil
\* error and issue no request and no fake action.
C5_MissingNameIsALocalError ==
    (/\ Returned({"gentype2", "fake", "legacy"}, {"Apply", "ApplyStatus"})
     /\ call.args.obj # NilPtr
     /\ GetName(call.args.obj) = NilPtr) =>
        ret.err # NoErr /\ NothingIssued

C5_Witness ==
    /\ Returned({"gentype2"}, {"Apply"})
    /\ call.args.obj # NilPtr
    /\ GetName(call.args.obj) = NilPtr
    /\ ret.err = "obj.Name must be provided to Apply"
    /\ NothingIssued

\* The error returned for an empty configuration / for a missing name.
EmptyConfigurationCall ==
    Returned({"gentype2", "fake"}, {"Apply", "ApplyStatus"}) /\ call.args.obj = NilPtr
MissingNameCall ==
    /\ Returned({"gentype2", "fake"}, {"Apply", "ApplyStatus"})
    /\ call.args.obj # NilPtr
    /\ GetName(call.args.obj) = NilPtr
    /\ ret.err \notin MarshalErrs

\* C6 as stated: for Apply and ApplyStatus alike the error for an empty
\* configuration reads "object provided to Apply must not be nil" and the
\* one for a missing name "obj.Name must be provided to Apply".
C6_MessagesAsStated ==
    /\ EmptyConfigurationCall => ret.err = "object provided to Apply must not be nil"
    /\ MissingNameCall => ret.err = "obj.Name must be provided to Apply"

\* The messages of each implementation: <<empty configuration, missing name>>.
C6_Messages(impl, verb) ==
    IF impl = "fake"
    THEN <<"configuration provided to Apply must not be nil",
           "configuration.Name must be provided to Apply">>
    ELSE IF impl = "gentype2" /\ verb = "ApplyStatus"
    THEN <<"object provided to ApplyStatus must not be nil",
           "obj.Name must be provided to ApplyStatus">>
    ELSE <<"object provided to Apply must not be nil",
           "obj.Name must be provided to Apply">>

\* C6, amended: the two messages are those quoted for Apply of the real
\* client and for Apply and ApplyStatus of the legacy client; ApplyStatus of
\* the real client says "ApplyStatus" in place of "Apply", and the fake
\* client says "configuration provided to Apply must not be nil" and
\* "configuration.Name must be provided to Apply".
C6_MessagesPerImplementation ==
    (/\ Returned({"gentype2", "fake", "legacy"}, {"Apply", "ApplyStatus"})
     /\ ret.err \notin MarshalErrs) =>
        /\ call.args.obj = NilPtr => ret.err = C6_Messages(call.impl, call.verb)[1]
        /\ (call.args.obj # NilPtr /\ GetName(call.args.obj) = NilPtr) =>
              ret.err = C6_Messages(call.impl, call.verb)[2]

C6_Witness ==
    /\ Returned({"gentype2"}, {"ApplyStatus"})
    /\ call.args.obj # NilPtr
    /\ GetName(call.args.obj) = NilPtr
    /\ ret.err = "obj.Name must be provided to ApplyStatus"

---------------------------------------------------------------------------
(* Properties of the returned object *)

\* C10 as stated: Get, Create, Update and Patch (real and fake) return an
\* instance with an absent error or the zero-value instance with a
\* non-absent error, never a populated object together with an error.
C10_ObjectOrError ==
    Returned({"gentype2", "fake"}, {"Get", "Create", "Update", "Patch"}) =>
        \/ ret.err = NoErr /\ ret.obj # Nil
        \/ ret.err # NoErr /\ ret.obj = Zero

\* C10, amended: the real client returns the decoded instance with an absent
\* error or the fresh zero-value instance with the transport's error; the
\* fake client returns the recorder's error unchanged, with the recorder's
\* object when it is non-nil and a fresh empty instance otherwise, so a
\* populated object comes with a non-absent error exactly when the
\* recorder's reaction supplies both.
C10_ObjectAsTheCollaboratorLeftIt ==
    Returned({"gentype2", "fake"}, {"Get", "Create", "Update", "Patch"}) =>
        /\ call.impl = "gentype2" =>
              /\ Len(requests) = 1
              /\ \/ ret.err = NoErr /\ lastResp.err = NoErr /\ ret.obj = lastResp.obj
                 \/ ret.err # NoErr /\ ret.err = lastResp.err /\ ret.obj = Zero
        /\ call.impl = "fake" =>
              /\ Len(actions) = 1
              /\ ret.err = lastResp.err
              /\ ret.obj = IF lastResp.obj = Nil THEN Zero ELSE lastResp.obj
        /\ ret.obj # Nil
        /\ (ret.obj \in Objs /\ ret.err # NoErr) =>
              call.impl = "fake" /\ lastResp = ret

C10_Witness ==
    /\ Returned({"fake"}, {"Get"})
    /\ lastResp = [obj |-> "o1", err |-> "e1"]
    /\ ret = [obj |-> "o1", err |-> "e1"]

\* The verbs that return a resource object or a list of them.
ObjectVerbs ==
    {"Get", "List", "Create", "Update", "UpdateStatus", "Patch", "Apply", "ApplyStatus",
     "ApplySubresource"}

\* C11: every verb that returns an object returns a non-null object in every
\* failing outcome, the local validation errors of Apply and ApplyStatus
\* included: a caller never receives a null result with a non-nil error.
C11_FailureReturnsAnObject ==
    (Returned({"gentype2", "fake", "legacy"}, ObjectVerbs) /\ ret.err # NoErr) =>
        IF call.impl = "fake" /\ call.verb = "List"
        THEN ret.obj \in ListObjs
        ELSE ret.obj # Nil

---------------------------------------------------------------------------
(* Properties of the request timeout *)

\* n seconds as an exact count of nanoseconds: 16 bytes hold the product of
\* any int64 and Second.
ExactSeconds(n) == MulInt(Widen(n), Widen(Second))

\* n seconds are a Duration: -9223372036 <= n <= 9223372036.
FitsDuration(n) == LessEq(NegInt(MaxExactSeconds), n) /\ LessEq(n, MaxExactSeconds)

\* A DeleteCollection call of the real or the legacy client has returned.
DeleteCollectionReturned == Returned({"gentype2", "legacy"}, {"DeleteCollection"})

\* C12 as stated: for every TimeoutSeconds value N the timeout set on the
\* request of DeleteCollection equals N seconds, the product N * one second
\* never wrapping to a different duration; it is zero when TimeoutSeconds is
\* not set.
C12_TimeoutIsTheSeconds ==
    DeleteCollectionReturned =>
        LET ts == call.args.listOpts.timeoutSeconds
            timeout == requests[1].req.timeout IN
        IF ts = NilPtr THEN timeout = Int64(0)
        ELSE Widen(timeout) = ExactSeconds(Deref(ts))

\* C12, amended: the timeout of the one request of DeleteCollection is zero
\* when TimeoutSeconds is not set, and else the 64-bit product of
\* TimeoutSeconds and one second in nanoseconds: TimeoutSeconds seconds when
\* -9223372036 <= TimeoutSeconds <= 9223372036, and a different duration,
\* the product modulo 2^64, outside that range.
C12_TimeoutIsTheWrappedProduct ==
    DeleteCollectionReturned =>
        LET ts == call.args.listOpts.timeoutSeconds
            timeout == requests[1].req.timeout IN
        /\ Len(requests) = 1
        /\ IF ts = NilPtr THEN timeout = Int64(0)
           ELSE /\ timeout = SubSeq(ExactSeconds(Deref(ts)), 1, 8)
                /\ FitsDuration(Deref(ts)) <=> Widen(timeout) = ExactSeconds(Deref(ts))

\* DeleteCollection has sent a negative timeout for a positive TimeoutSeconds.
C12_Witness ==
    /\ DeleteCollectionReturned
    /\ call.args.listOpts.timeoutSeconds = Ptr(AddInt(MaxExactSeconds, Int64(1)))
    /\ IsNegative(requests[1].req.timeout)

---------------------------------------------------------------------------
(* Properties of the requests of a call *)

\* The verbs of the client.
Verbs ==
    {"Get", "List", "Watch", "Create", "Update", "UpdateStatus", "Delete",
     "DeleteCollection", "Patch", "Apply", "ApplyStatus"}

\* The requests the running call has issued, the consistency check's included.
OfCall == SelectSeq(requests, LAMBDA s : s.by # "concurrent")

\* The requests issued by the consistency check.
ByCheck == SelectSeq(requests, LAMBDA s : s.by = "check")

\* The call has passed the local validation of its verb.
PassedLocalValidation ==
    call.verb \in {"Apply", "ApplyStatus"} =>
        call.args.obj # NilPtr /\ GetName(call.args.obj) # NilPtr

\* The request body of an Apply or ApplyStatus call could not be built.
BodyNotBuilt ==
    call.verb \in {"Apply", "ApplyStatus"} /\ ret.err \in MarshalErrs \ {NoErr}

\* C13 as stated: a single logical call of any verb that passes local
\* validation results in exactly one request to the transport.
C13_OneRequestPerCall ==
    (Returned({"gentype2", "legacy"}, Verbs) /\ PassedLocalValidation) =>
        Len(OfCall) = 1

\* C13, amended: a call that passes local validation results in exactly one
\* request, except that Apply and ApplyStatus issue none when the request
\* body cannot be built, and that List issues one request on its own path,
\* or two exactly when its watch-list request has failed (the standard list
\* follows), and the consistency check of a successful List issues at most
\* one more.
C13_RequestsPerCall ==
    (Returned({"gentype2", "legacy"}, Verbs) /\ PassedLocalValidation) =>
        IF IsList
        THEN /\ Len(ByList) \in {1, 2}
             /\ Len(ByList) = 2 <=> WatchListFailed
             /\ Len(ByCheck) <= 1
             /\ Len(ByCheck) = 1 => ret.err = NoErr
             /\ Len(OfCall) = Len(ByList) + Len(ByCheck)
        ELSE IF BodyNotBuilt THEN OfCall = <<>>
        ELSE Len(OfCall) = 1

\* List has returned after a failed watch-list request and a standard list.
C13_Witness ==
    /\ IsList /\ pc = "done"
    /\ WatchListFailed
    /\ Len(ByList) = 2
    /\ ByList[1].req.exec = "WatchList" /\ ByList[2].req.exec = "Do"

\* The standard list requests List has issued on its own path.
StandardListsSent == SelectSeq(ByList, LAMBDA s : s.req.exec = "Do")

\* C14: a transport error from Get, Create, Update, UpdateStatus, Delete,
\* DeleteCollection, Patch, Watch or the standard list request is returned to
\* the caller unchanged, and the failing request is not issued again: the
\* call has issued it once and nothing after it.
C14_TransportErrorVerbatimNoRetry ==
    /\ (/\ Returned({"gentype2", "legacy"},
                     {"Get", "Create", "Update", "UpdateStatus", "Delete",
                      "DeleteCollection", "Patch", "Watch"})
        /\ lastResp.err # NoErr) =>
            /\ ret.err = lastResp.err
            /\ lastResp.err \in Errs
            /\ Len(OfCall) = 1
    /\ (Returned({"legacy"}, {"List"}) /\ lastResp.err # NoErr) =>
            ret.err = lastResp.err /\ Len(OfCall) = 1
    /\ (IsList /\ pc = "done" /\ stdResp # NoResp /\ stdResp.err # NoErr) =>
            /\ ret.err = stdResp.err
            /\ stdResp.err \in Errs
            /\ Len(StandardListsSent) = 1
            /\ OfCall[Len(OfCall)] = SentStandardList

\* Delete has returned the transport's error.
C14_Witness ==
    /\ Returned({"gentype2"}, {"Delete"})
    /\ lastResp.err = "e1"
    /\ ret.err = "e1"
    /\ Len(requests) = 1

---------------------------------------------------------------------------
(* Properties of the configuration *)

\* Every request the transport has seen is the one its call builds when run
\* alone on the client as constructed.
BuiltAsAlone ==
    /\ \A i \in 1..Len(ByOthers) :
          ByOthers[i] = ConcurrentRequest(client)
    /\ IsList =>
          \A i \in 1..Len(ByList) :
             IF ByList[i].req.exec = "WatchList"
             THEN ByList[i] = SentWatchList
             ELSE ByList[i] = SentStandardList
    /\ (pc = "done" /\ ~IsList /\ call.impl = "gentype2") =>
          \A i \in 1..Len(requests) :
             /\ requests[i].req.resource = client.resource
             /\ requests[i].req.namespace = client.namespace
             /\ requests[i].req.protobuf = client.prefersProtobuf

\* C15: no verb call modifies the client's configuration after construction,
\* so under any interleaving of concurrent calls on one client each call
\* builds the request it builds when run alone.
C15_ConfigurationIsImmutable ==
    [][client' = client]_vars /\ []BuiltAsAlone

\* List has fallen back to the standard list with a concurrent call's request
\* between its two requests.
C15_Witness ==
    /\ IsList /\ pc = "done"
    /\ Len(requests) >= 3
    /\ requests[1] = SentWatchList
    /\ requests[2].by = "concurrent"
    /\ requests[3] = SentStandardList

\* C16: every request built by any verb carries the client's configured
\* coordinates: it is scoped by the client's namespace if and only if that
\* namespace is non-empty, it targets the client's resource, and it asks for
\* protobuf as default if and only if the client was constructed with the
\* PrefersProtobuf option (which the legacy client does not have).
C16_RequestsCarryTheCoordinates ==
    \A i \in 1..Len(requests) :
        LET r == requests[i].req IN
        /\ r.namespaceSet <=> client.namespace # ""
        /\ r.namespaceSet => r.namespace = client.namespace
        /\ r.resource = client.resource
        /\ r.protobuf <=> (client.prefersProtobuf /\ call.impl # "legacy")

\* A cluster-scoped client preferring protobuf has sent the two requests of
\* a List: neither is scoped by a namespace, both ask for protobuf.
C16_Witness ==
    /\ IsList /\ pc = "done" /\ Len(ByList) = 2
    /\ client.namespace = "" /\ client.prefersProtobuf
    /\ \A i \in 1..2 : ~ByList[i].req.namespaceSet /\ ByList[i].req.protobuf

---------------------------------------------------------------------------
(* Properties relating verbs *)

\* C17: UpdateStatus builds the request of Update for the same object and
\* options (PUT, body = the input object, path name = the object's own name)
\* except that the subresource path is exactly <<"status">>, and decodes the
\* answer as Update does, into a fresh object of the parent resource; the
\* fake's action differs from that of the fake Update in the subresource only.
C17_UpdateStatusIsUpdateOnStatus ==
    /\ Returned({"gentype2"}, {"UpdateStatus"}) =>
          LET update == Update(client, call.args.obj, call.args.opts, lastResp)
              r == requests[1].req IN
          /\ Len(requests) = 1 /\ Len(update.reqs) = 1
          /\ update.reqs[1].req.subresource = <<>>
          /\ r = [update.reqs[1].req EXCEPT !.subresource = <<"status">>]
          /\ r.method = "PUT"
          /\ r.body = Body("object", call.args.obj)
          /\ r.name = Ptr(call.args.obj.name)
          /\ ret = update.ret
    /\ Returned({"legacy"}, {"UpdateStatus"}) =>
          LET update == LegacyUpdate(client, call.args.obj, call.args.opts, lastResp) IN
          /\ Len(requests) = 1
          /\ requests[1].req = [update.reqs[1].req EXCEPT !.subresource = <<"status">>]
          /\ ret = update.ret
    /\ Returned({"fake"}, {"UpdateStatus"}) =>
          LET update == FakeUpdate(client, call.args.obj, call.args.opts, lastResp) IN
          /\ Len(actions) = 1
          /\ update.acts[1].subresource = ""
          /\ actions[1] = [update.acts[1] EXCEPT !.subresource = "status"]
          /\ ret = update.ret

\* UpdateStatus has sent the PUT of object "a" to its status subresource.
C17_Witness ==
    /\ Returned({"gentype2"}, {"UpdateStatus"})
    /\ call.args.obj.name = "a"
    /\ requests[1].req.method = "PUT"
    /\ requests[1].req.name = Ptr("a")
    /\ requests[1].req.subresource = <<"status">>

\* C18: for every valid configuration and options ApplyStatus issues the
\* request of Apply (the name taken from the configuration, the same body,
\* the options converted from ApplyOptions to PatchOptions) except that the
\* subresource path is exactly <<"status">>; every request of Apply and
\* ApplyStatus and every action of their fake counterparts uses the apply
\* patch type.
C18_ApplyStatusIsApplyOnStatus ==
    /\ (Returned({"gentype2"}, {"ApplyStatus"}) /\ requests # <<>>) =>
          LET apply == Apply(client, call.args.obj, call.args.opts, NoErr, lastResp)
              r == requests[1].req IN
          /\ Len(requests) = 1 /\ Len(apply.reqs) = 1
          /\ apply.reqs[1].req.subresource = <<>>
          /\ r = [apply.reqs[1].req EXCEPT !.subresource = <<"status">>]
          /\ r.name = Ptr(Deref(GetName(call.args.obj)))
          /\ r.body = Marshal(call.args.obj)
          /\ r.params = ToPatchOptions(call.args.opts)
    /\ (Returned({"legacy"}, {"ApplyStatus"}) /\ requests # <<>>) =>
          LET apply == LegacyApply(client, call.args.obj, call.args.opts, NoErr, lastResp) IN
          /\ Len(requests) = 1 /\ Len(apply.reqs) = 1
          /\ requests[1].req = [apply.reqs[1].req EXCEPT !.subresource = <<"status">>]
    /\ (Returned({"fake"}, {"ApplyStatus"}) /\ actions # <<>>) =>
          LET apply == FakeApply(client, call.args.obj, call.args.opts, NoErr, lastResp) IN
          /\ Len(actions) = 1 /\ Len(apply.acts) = 1
          /\ apply.acts[1].subresource = ""
          /\ actions[1] = [apply.acts[1] EXCEPT !.subresource = "status"]
          /\ actions[1].name = Ptr(Deref(GetName(call.args.obj)))
          /\ actions[1].options = ToPatchOptions(call.args.opts)
    /\ Returned({"gentype2", "fake", "legacy"}, {"Apply", "ApplyStatus"}) =>
          /\ \A i \in 1..Len(requests) :
                /\ requests[i].req.method = "PATCH"
                /\ requests[i].req.patchType = ApplyPatchType
          /\ \A i \in 1..Len(actions) :
                /\ actions[i].verb = "patch"
                /\ actions[i].patchType = ApplyPatchType

\* ApplyStatus has sent the apply patch of configuration "a", forced, to the
\* status subresource.
C18_Witness ==
    /\ Returned({"gentype2"}, {"ApplyStatus"})
    /\ Len(requests) = 1
    /\ call.args.opts.force
    /\ requests[1].req.subresource = <<"status">>
    /\ requests[1].req.patchType = ApplyPatchType
    /\ requests[1].req.name = Ptr("a")
    /\ requests[1].req.params.force = Ptr(TRUE)

---------------------------------------------------------------------------
(* Properties of Watch *)

\* C19 as stated: Watch, real and fake, always sends list options whose
\* watch flag is true, whatever the caller passed, derives the request
\* timeout from TimeoutSeconds as the standard list does (TimeoutSeconds
\* seconds when set, zero otherwise), and leaves the caller's own options
\* value unchanged.
C19_WatchAsStated ==
    Returned({"gentype2", "fake"}, {"Watch"}) =>
        LET opts == call.args.opts
            sent == IF call.impl = "fake" THEN actions[1] ELSE requests[1].req
            sentOpts == IF call.impl = "fake" THEN sent.options ELSE sent.params IN
        /\ sentOpts.watch
        /\ sentOpts = [opts EXCEPT !.watch = TRUE]
        /\ "timeout" \in DOMAIN sent
        /\ sent.timeout = listRequest(client, opts).timeout
        /\ IF opts.timeoutSeconds = NilPtr THEN sent.timeout = Int64(0)
           ELSE Widen(sent.timeout) = ExactSeconds(Deref(opts.timeoutSeconds))

\* C19, amended: Watch, real and fake, always sends list options whose watch
\* flag is true and that are otherwise the caller's, whose own value it
\* leaves unchanged.  The real Watch sets the request timeout as the standard
\* list does: zero when TimeoutSeconds is not set, else the 64-bit product of
\* TimeoutSeconds and one second, which is TimeoutSeconds seconds exactly
\* when -9223372036 <= TimeoutSeconds <= 9223372036.  The fake Watch submits
\* a watch action carrying the options and no timeout.
C19_WatchForcesTheFlag ==
    /\ Returned({"gentype2", "legacy"}, {"Watch"}) =>
          LET opts == call.args.opts
              r == requests[1].req
              c == IF call.impl = "legacy" THEN LegacyClient(client) ELSE client IN
          /\ Len(requests) = 1
          /\ r.exec = "Watch"
          /\ r.params.watch
          /\ r.params = [opts EXCEPT !.watch = TRUE]
          /\ r.timeout = listRequest(c, opts).timeout
          /\ IF opts.timeoutSeconds = NilPtr THEN r.timeout = Int64(0)
             ELSE /\ r.timeout = SubSeq(ExactSeconds(Deref(opts.timeoutSeconds)), 1, 8)
                  /\ FitsDuration(Deref(opts.timeoutSeconds)) <=>
                        Widen(r.timeout) = ExactSeconds(Deref(opts.timeoutSeconds))
    /\ Returned({"fake"}, {"Watch"}) =>
          /\ Len(actions) = 1
          /\ actions[1].verb = "watch"
          /\ actions[1].options.watch
          /\ actions[1].options = [call.args.opts EXCEPT !.watch = TRUE]
          /\ "timeout" \notin DOMAIN actions[1]

\* Watch has sent, for options with a false watch flag and two seconds of
\* timeout, a request with the flag set and a timeout of two seconds.
C19_Witness ==
    /\ Returned({"gentype2"}, {"Watch"})
    /\ ~call.args.opts.watch
    /\ call.args.opts.timeoutSeconds = Ptr(Int64(2))
    /\ requests[1].req.params.watch
    /\ requests[1].req.timeout = MulInt(Int64(2), Second)

---------------------------------------------------------------------------
(* Properties of the fake List *)

\* A fake List call has returned that extracted a label selector and got a
\* list from the recorder.
FilteredListReturned ==
    /\ Returned({"fake"}, {"List"})
    /\ call.args.label # NilPtr
    /\ lastResp.obj # NilPtr

\* The positions of the unfiltered list whose item has accessible metadata
\* and labels that meet every requirement of the selector.
MatchingPositions(unfiltered, label) ==
    { i \in 1..Len(unfiltered.items) :
        unfiltered.items[i].hasMeta /\ label \subseteq unfiltered.items[i].labels }

\* C20: fake List with a label selector set returns exactly the items of
\* the recorder's unfiltered list whose labels match the selector, in their
\* original relative order and each position once (items with no accessible
\* metadata are excluded), with the list-level metadata of the unfiltered
\* list.
C20_FakeListFilters ==
    FilteredListReturned =>
        LET unfiltered == Deref(lastResp.obj)
            label == Deref(call.args.label)
            matching == MatchingPositions(unfiltered, label)
            items == ret.obj.items IN
        /\ label = ParseSelector(call.args.opts.labelSelector)
        /\ Len(items) = Cardinality(matching)
        /\ \E f \in [1..Len(items) -> matching] :
              /\ \A i, j \in 1..Len(items) : i < j => f[i] < f[j]
              /\ \A i \in 1..Len(items) : items[i] = unfiltered.items[f[i]]
        /\ ret.obj.meta = unfiltered.meta

\* The fake List has dropped an item without accessible metadata whose
\* labels would match, and kept the matching item and the continuation token.
C20_Witness ==
    /\ FilteredListReturned
    /\ call.args.opts.labelSelector = "x=1"
    /\ Len(Deref(lastResp.obj).items) = MaxItems
    /\ \E i \in 1..MaxItems : ~Deref(lastResp.obj).items[i].hasMeta
    /\ \E i \in 1..MaxItems : Deref(lastResp.obj).items[i].id = "i1"
    /\ Len(ret.obj.items) = 1
    /\ ret.obj.items[1].id = "i1"
    /\ ret.obj.meta = "continue-1"

---------------------------------------------------------------------------
(* Properties of the fake verbs *)

\* A fake verb call has returned that passed local validation and could
\* build its action.
FakeReturned == Returned({"fake"}, Verbs) /\ PassedLocalValidation /\ ~BodyNotBuilt

\* C21: every fake verb call that passes local validation submits exactly
\* one action to the recorder and returns the recorder's error unchanged; the
\* returned object is the recorder's object when it is non-nil and a fresh
\* empty non-nil object otherwise; for the fake List this holds whether or
\* not a label selector is extracted from the options.
C21_FakeRelaysTheRecorder ==
    FakeReturned =>
        /\ Len(actions) = 1
        /\ ret.err = lastResp.err
        /\ call.verb = "List" =>
              ret.obj = IF lastResp.obj = NilPtr THEN ZeroList ELSE Deref(lastResp.obj)
        /\ call.verb \in ObjectVerbs \ {"List"} =>
              ret.obj = IF lastResp.obj = Nil THEN Zero ELSE lastResp.obj

---------------------------------------------------------------------------
(* Properties of the names and bodies of the requests *)

\* Every request the running call has issued carries the name `name`.
AllNamed(name) == \A i \in 1..Len(OfCall) : OfCall[i].req.name = name

\* C22: Create, List and DeleteCollection requests never carry an object
\* name in the path, while Get, Update, Delete and Patch requests carry
\* exactly one name (the given name, or for Update the object's own name);
\* Delete and DeleteCollection carry the delete options as the request body
\* and return only an error.
C22_NamesAndDeleteBodies ==
    Returned({"gentype2"}, {"Create", "List", "DeleteCollection", "Get", "Update",
                            "Delete", "Patch"}) =>
        /\ Len(OfCall) >= 1
        /\ call.verb \in {"Create", "List", "DeleteCollection"} => AllNamed(NoName)
        /\ call.verb \in {"Get", "Delete", "Patch"} => AllNamed(Ptr(call.args.name))
        /\ call.verb = "Update" => AllNamed(Ptr(call.args.obj.name))
        /\ call.verb \in {"Delete", "DeleteCollection"} =>
              /\ \A i \in 1..Len(OfCall) :
                    OfCall[i].req.body = Body("options", call.args.opts)
              /\ ret = [obj |-> None, err |-> lastResp.err]

\* A Delete of "b" has carried its name and the delete options and returned
\* only the transport's error.
C22_Witness ==
    /\ Returned({"gentype2"}, {"Delete"})
    /\ call.args.name = "b"
    /\ call.args.opts.propagationPolicy = "Foreground"
    /\ OfCall[1].req.name = Ptr("b")
    /\ OfCall[1].req.body.val.propagationPolicy = "Foreground"
    /\ ret = [obj |-> None, err |-> "e1"]

---------------------------------------------------------------------------
(* Properties of the client generator *)

\* The generator has written the client of a type.
Generated == pc = "done" /\ call.impl = "client-gen" /\ call.verb = "GenerateType"

\* The list and apply bits of the variants, and their combinations.
ListBits == {noList, withList}
ApplyBits == {noApply, withApply}

\* C23: the variant bitmask has the values its comment states: (noList,
\* noApply) is index 0, (withList, noApply) index 2, (noList, withApply)
\* index 4, (withList, withApply) index 6, and each non-namespaced
\* constructor variant is the namespaced index offset by 1.
C23_BitmaskAsCommented ==
    Generated =>
        /\ BitOr(noList, noApply) = 0
        /\ BitOr(withList, noApply) = 2
        /\ BitOr(noList, withApply) = 4
        /\ BitOr(withList, withApply) = 6
        /\ \A l \in ListBits, a \in ApplyBits :
              BitOr(BitOr(nonNamespaced, l), a) = BitOr(BitOr(namespaced, l), a) + 1

\* The struct template and the constructor template of a combination of
\* namespacedness, list support and apply support.
TemplatesOf(n, l, a) == <<structType[BitOr(l, a)], newStruct[BitOr(BitOr(n, l), a)]>>

\* The combinations of namespacedness, list support and apply support.
Combinations == {namespaced, nonNamespaced} \X ListBits \X ApplyBits

\* C24: GenerateType picks the client variant from the tags: with NoVerbs
\* the plain Client struct and the NewClient constructor are emitted;
\* otherwise list support is included if and only if the tags have the list
\* verb, and apply support if and only if the tags have the apply verb and an
\* apply-configuration package is configured. For each of the 8 combinations
\* the templates looked up are defined, distinct per combination, and the
\* constructor takes a namespace parameter if and only if the type is
\* namespaced.
C24_VariantFollowsTheTags ==
    Generated =>
        LET tags == call.args.t.tags
            generateApply == call.args.g.applyConfigurationPackage # ""
            list == ~tags.NoVerbs /\ "list" \notin tags.SkipVerbs
            apply == ~tags.NoVerbs /\ "apply" \notin tags.SkipVerbs /\ generateApply
            gen == ret.obj IN
        /\ tags.NoVerbs => gen.structType = "Client" /\ gen.newStruct.new = "NewClient"
        /\ gen.structType \in {"ClientWithList", "ClientWithListAndApply"} <=> list
        /\ gen.newStruct.new \in {"NewClientWithList", "NewClientWithListAndApply"} <=> list
        /\ gen.structType \in {"ClientWithApply", "ClientWithListAndApply"} <=> apply
        /\ gen.newStruct.new \in {"NewClientWithApply", "NewClientWithListAndApply"} <=> apply
        /\ gen.structType # "" /\ gen.newStruct.new # ""
        /\ gen.newStruct.namespaceParam <=> ~tags.NonNamespaced
        /\ Cardinality(Combinations) = 8
        /\ \A c \in Combinations :
              /\ TemplatesOf(c[1], c[2], c[3])[1] # ""
              /\ TemplatesOf(c[1], c[2], c[3])[2].new # ""
              /\ TemplatesOf(c[1], c[2], c[3])[2].namespaceParam <=> c[1] = namespaced
              /\ \A d \in Combinations :
                    c # d => TemplatesOf(c[1], c[2], c[3]) # TemplatesOf(d[1], d[2], d[3])

\* A non-namespaced type with the list and apply verbs, generated with an
\* apply-configuration package, got the struct and the constructor with list
\* and apply, the constructor without a namespace parameter.
C24_Witness ==
    /\ Generated
    /\ call.args.t.tags.NonNamespaced
    /\ ~call.args.t.tags.NoVerbs
    /\ call.args.t.tags.SkipVerbs = {"updateStatus"}
    /\ call.args.g.applyConfigurationPackage # ""
    /\ ret.obj.structType = "ClientWithListAndApply"
    /\ ret.obj.newStruct =
          [new |-> "NewClientWithListAndApply", namespaceParam |-> FALSE, namespace |-> "\"\""]

\* The methods of the generated interface.
InterfaceMethods == { ret.obj.interface[i] : i \in 1..Len(ret.obj.interface) }

\* The type has a member named Status and its tags do not set NoStatus.
StatusWanted ==
    /\ "Status" \in { call.args.t.Members[i] : i \in 1..Len(call.args.t.Members) }
    /\ ~call.args.t.tags.NoStatus

\* C25: genStatus returns true exactly when the type has a member named
\* Status and its tags do not set NoStatus; when it returns false and NoVerbs
\* is not set, the generated interface contains neither UpdateStatus nor
\* ApplyStatus; ApplyStatus and Apply are also absent whenever no
\* apply-configuration package is configured.
C25_StatusMethodsFollowGenStatus ==
    Generated =>
        /\ genStatus(call.args.t) <=> StatusWanted
        /\ (~StatusWanted /\ ~call.args.t.tags.NoVerbs) =>
              InterfaceMethods \cap {"UpdateStatus", "ApplyStatus"} = {}
        /\ call.args.g.applyConfigurationPackage = "" =>
              InterfaceMethods \cap {"Apply", "ApplyStatus"} = {}

\* A type with a Status member and the noStatus tag was generated with an
\* apply-configuration package: Apply is in its interface, UpdateStatus and
\* ApplyStatus are not.
C25_Witness ==
    /\ Generated
    /\ call.args.t.Members = <<"Spec", "Status">>
    /\ call.args.t.tags.NoStatus
    /\ ~call.args.t.tags.NoVerbs
    /\ call.args.t.tags.SkipVerbs = {}
    /\ call.args.g.applyConfigurationPackage # ""
    /\ "Apply" \in InterfaceMethods
    /\ "Update" \in InterfaceMethods
    /\ InterfaceMethods \cap {"UpdateStatus", "ApplyStatus"} = {}

---------------------------------------------------------------------------
(* Properties of the order of the local checks of Apply *)

\* The positions of the call's steps at which `e` happened.
Positions(e) == { i \in 1..Len(events) : events[i] = e }

\* C26: in Apply and ApplyStatus (real, legacy and fake client) the name
\* accessor of the configuration is invoked only after the check for the
\* empty configuration has passed: on an empty configuration the call
\* returns the empty-configuration error without ever calling the accessor.
C26_NameReadAfterTheEmptyCheck ==
    Returned({"gentype2", "legacy", "fake"}, {"Apply", "ApplyStatus"}) =>
        /\ Positions("isZero") # {}
        /\ \A i \in Positions("GetName") :
              /\ call.args.obj # NilPtr
              /\ \E j \in Positions("isZero") : j < i
        /\ call.args.obj = NilPtr =>
              /\ Positions("GetName") = {}
              /\ ret.err = C6_Messages(call.impl, call.verb)[1]

\* ApplyStatus of the real client has refused an empty configuration after
\* the check alone, the name accessor not called.
C26_Witness ==
    /\ Returned({"gentype2"}, {"ApplyStatus"})
    /\ call.args.obj = NilPtr
    /\ events = <<"ApplyStatus", "isZero">>
    /\ ret.err = "object provided to ApplyStatus must not be nil"
    /\ NothingIssued

---------------------------------------------------------------------------
(* Termination of List *)

\* The watch-list requests List has issued on its own path.
WatchListsSent == SelectSeq(ByList, LAMBDA s : s.req.exec = "WatchList")

\* What a List call has issued so far: at most one watch-list request and
\* at most one standard list on its own path; the check was called at most
\* once, by List, and each request made through listFunc is the standard
\* list request of the caller's options.
ListIsBounded ==
    IsList =>
        /\ Len(WatchListsSent) <= 1
        /\ Len(StandardListsSent) <= 1
        /\ Len(ByList) = Len(WatchListsSent) + Len(StandardListsSent)
        /\ Len(checks) <= 1
        /\ Len(ByCheck) <= Len(checks)
        /\ \A i \in 1..Len(ByCheck) : ByCheck[i].req = listRequest(client, call.opts)

\* C27: every List call terminates once its transport calls return, after
\* at most one watch-list request and at most one standard list request on
\* its own path; the list function handed to the consistency check issues
\* only a standard list request and never starts a watch-list request or
\* another consistency check, so the check cannot recurse.
C27_ListTerminates ==
    /\ []ListIsBounded
    /\ (IsList /\ pc # "done") ~> (IsList /\ pc = "done")

\* List has returned after a failed watch-list request, a standard list and
\* one run of the check, which listed once more.
C27_Witness ==
    /\ IsList /\ pc = "done"
    /\ Len(WatchListsSent) = 1
    /\ Len(StandardListsSent) = 1
    /\ Len(checks) = 1
    /\ Len(ByCheck) = 1
    /\ ByCheck[1].req.exec = "Do"

---------------------------------------------------------------------------
(* Properties of the slice helpers *)

\* A slice was turned into a slice of pointers and back.
PointerSlicesReturned ==
    pc = "done" /\ call.impl = "gentype2" /\ call.verb = "ToPointerSlice"

\* C28: FromPointerSlice(ToPointerSlice(s)) has the same length and the same
\* elements in the same order as s; a nil slice maps to a nil slice in both
\* directions and an empty non-nil slice to an empty non-nil slice; the i-th
\* pointer returned by ToPointerSlice refers to the i-th element of the
\* source slice itself, not a copy.
C28_PointerSlicesRoundTrip ==
    PointerSlicesReturned =>
        LET src == call.args.src
            pointers == ret.obj.pointers
            values == ret.obj.values IN
        /\ Len(values.elems) = Len(src.elems)
        /\ \A i \in 1..Len(src.elems) : values.elems[i] = src.elems[i]
        /\ pointers.nil <=> src.nil
        /\ values.nil <=> src.nil
        /\ Len(pointers.elems) = Len(src.elems)
        /\ \A i \in 1..Len(pointers.elems) :
              pointers.elems[i] = [array |-> src.array, index |-> i]
        /\ ~src.nil => pointers.array # src.array /\ values.array # src.array

\* A slice of two different elements came back with both, in order, through
\* pointers to its own elements.
C28_Witness ==
    /\ PointerSlicesReturned
    /\ call.args.src.elems = <<"v2", "v1">>
    /\ ret.obj.values.elems = <<"v2", "v1">>
    /\ ret.obj.pointers.elems[2] = [array |-> "src", index |-> 2]

---------------------------------------------------------------------------
(* The gentype2 client against the legacy generic client *)

\* The verbs both clients build with one request.
SharedVerbs ==
    {"Get", "List", "Watch", "Create", "Update", "UpdateStatus", "Delete",
     "DeleteCollection", "Patch"}

\* The request the gentype2 client builds for `verb` with the arguments
\* `args`; for List, its standard list request.
Gentype2Request(verb, c, args, resp) ==
    CASE verb = "Get" -> Get(c, args.name, args.opts, resp).reqs[1].req
      [] verb = "List" -> listRequest(c, args.opts)
      [] verb = "Watch" -> Watch(c, args.opts, resp).reqs[1].req
      [] verb = "Create" -> Create(c, args.obj, args.opts, resp).reqs[1].req
      [] verb = "Update" -> Update(c, args.obj, args.opts, resp).reqs[1].req
      [] verb = "UpdateStatus" -> UpdateStatus(c, args.obj, args.opts, resp).reqs[1].req
      [] verb = "Delete" -> Delete(c, args.name, args.opts, resp).reqs[1].req
      [] verb = "DeleteCollection" ->
            DeleteCollection(c, args.opts, args.listOpts, resp).reqs[1].req
      [] verb = "Patch" ->
            Patch(c, args.name, args.pt, args.data, args.opts, args.sub, resp).reqs[1].req

\* C29: for a client without the protobuf preference, each of Get, standard
\* list, Watch, Create, Update, UpdateStatus, Delete, DeleteCollection and
\* Patch of the gentype2 client builds the same request (HTTP verb, namespace
\* scoping, resource, name, subresource path, encoded options, timeout, body)
\* as the same verb of the legacy generic client given the same configuration
\* and arguments.
C29_LegacyBuildsTheSameRequests ==
    (Returned({"legacy"}, SharedVerbs) /\ ~client.prefersProtobuf) =>
        /\ Len(requests) = 1
        /\ requests[1].req = Gentype2Request(call.verb, client, call.args, lastResp)

\* The legacy client has patched the status of "b" in a namespace with the
\* request the gentype2 client builds.
C29_Witness ==
    /\ Returned({"legacy"}, {"Patch"})
    /\ ~client.prefersProtobuf
    /\ client.namespace = "ns1"
    /\ call.args.name = "b"
    /\ call.args.sub = <<"status">>
    /\ requests[1].req.subresource = <<"status">>
    /\ requests[1].req =
          Patch(client, "b", call.args.pt, call.args.data, call.args.opts, <<"status">>,
                lastResp).reqs[1].req

====
